---------------------------- MODULE Spec2Model ----------------------------
(***************************************************************************)
(* Model of xenia's HLSL shader translator                                 *)
(* (src/xenia/gpu/hlsl_shader_translator.cc).                              *)
(*                                                                         *)
(* The emitted shader text is a sequence of "pieces", one per EmitSource / *)
(* EmitSourceDepth call: d is the indentation prefix written before the    *)
(* piece (-1 for EmitSource, which writes none), f the format string with  *)
(* its %c arguments already substituted, a the tuple of its %u arguments.  *)
(***************************************************************************)
EXTENDS Integers, Sequences, FiniteSets, TLC

VARIABLES
  \* HlslShaderTranslator fields
  source_inner_, depth_, cf_wrote_pc_, cf_exec_pred_, cf_exec_pred_cond_,
  writes_depth_, srv_bindings_, sampler_count_, sampler_fetch_constants_,
  cube_used_,
  \* ShaderTranslator (base class) fields
  errors_,
  \* the translation in progress: phase, position inside the current control
  \* flow instruction, its address, whether ProcessLabel ran for it, the length
  \* of source_inner_ when it began, the instruction, the last ALU or fetch
  \* instruction, the number of instructions so far
  phase, pos, cf_index, labelled, mark, cur, alu, ninstr,
  \* the result of CompleteTranslation
  source,
  \* the last handler that ran, with its arguments and its return value
  call,
  \* the control flow instructions processed since Reset, with what each left
  history,
  \* the arguments of the one call made in the specifications that exercise a
  \* single handler on every input of a set
  input,
  \* the shader state (registers of the emitted code) in the specifications that
  \* execute emitted statements
  run

vars == <<source_inner_, depth_, cf_wrote_pc_, cf_exec_pred_, cf_exec_pred_cond_,
          writes_depth_, srv_bindings_, sampler_count_, sampler_fetch_constants_,
          cube_used_, errors_, phase, pos, cf_index, labelled, mark, cur, alu,
          ninstr, source, call, history, input,
                 run>>

translator == <<source_inner_, depth_, cf_wrote_pc_, cf_exec_pred_,
                cf_exec_pred_cond_, writes_depth_, srv_bindings_, sampler_count_,
                sampler_fetch_constants_, cube_used_>>

-----------------------------------------------------------------------------
(* Bounds of the model *)

\* instructions (control flow, ALU and fetch together) per translation
MaxInstr == 2

-----------------------------------------------------------------------------
(* Program constants *)

kMaxInterpolators == 16
\* storage_index_max of EmitLoadOperand
kRegisterIndexMax == 127
kConstantFloatIndexMax == 255
kConstantIntIndexMax == 31
\* the entries of the loop stacks xe_aL (int4) and xe_loop_count (uint4)
kLoopStackDepth == 4

-----------------------------------------------------------------------------
(* Text pieces *)

\* EmitSourceDepth(f, a...) at indentation d
Line(d, f, a) == [d |-> d, f |-> f, a |-> a]
\* EmitSource(f, a...)
Part(f, a) == [d |-> -1, f |-> f, a |-> a]
\* instr.Disassemble(&source_inner_): the disassembler's text, opaque here
Disassemble == Part("<disassembly>\n", <<>>)

\* x >> n and x & (2^n - 1) on unsigned values
Shr(x, n) == x \div (2 ^ n)
LowBits(x, n) == x % (2 ^ n)

\* "if ((xe_bool_constants[%u] & (1u << %uu)) %c= 0u) {\n"
BoolConstantTest(d, bool_constant_index, condition) ==
  Line(d,
       IF condition
         THEN "if ((xe_bool_constants[%u] & (1u << %uu)) != 0u) {\n"
         ELSE "if ((xe_bool_constants[%u] & (1u << %uu)) == 0u) {\n",
       <<Shr(bool_constant_index, 5), LowBits(bool_constant_index, 5)>>)

\* "if (%cxe_p0) {\n"
PredicateTest(d, condition) ==
  Line(d, IF condition THEN "if ( xe_p0) {\n" ELSE "if (!xe_p0) {\n", <<>>)

-----------------------------------------------------------------------------
(* Error reporting *)

\* ShaderTranslator::EmitTranslationError / EmitUnimplementedTranslationError
BaseEmitTranslationError(errs, message) ==
  Append(errs, [is_fatal |-> TRUE, message |-> message])
BaseEmitUnimplementedTranslationError(errs) ==
  Append(errs, [is_fatal |-> FALSE, message |-> "Unimplemented translation"])

EmitUnimplementedTranslationErrorText(d) ==
  <<Line(d, "// UNIMPLEMENTED TRANSLATION\n", <<>>)>>

EmitTranslationErrorText(d, message) ==
  <<Line(d, "// TRANSLATION ERROR: " \o message \o "\n", <<>>)>>

-----------------------------------------------------------------------------
(* Control flow: the text each handler appends *)

StartTranslationText(d) == <<Line(d, "case 0u:\n", <<>>)>>

\* the label that synthesizes the fallthrough whatever the previous
\* instruction did
ProcessLabelText_Always(d, label, wrote_pc) ==
  IF label # 0
    THEN <<Line(d, "xe_pc = %uu;\n", <<label>>), Line(d, "break;", <<>>),
           Line(d, "case %uu:\n", <<label>>)>>
    ELSE <<>>

\* the label that opens a case for address 0 as well
ProcessLabelText_CaseZero(d, label, wrote_pc) ==
  (IF ~wrote_pc /\ label # 0
     THEN <<Line(d, "xe_pc = %uu;\n", <<label>>), Line(d, "break;", <<>>)>>
     ELSE <<>>)
  \o <<Line(d, "case %uu:\n", <<label>>)>>

ProcessLabelText(d, label, wrote_pc) ==
  IF label # 0
    THEN (IF ~wrote_pc
            THEN <<Line(d, "xe_pc = %uu;\n", <<label>>), Line(d, "break;", <<>>)>>
            ELSE <<>>)
         \o <<Line(d, "case %uu:\n", <<label>>)>>
    ELSE <<>>

ProcessControlFlowNopInstructionText(d) == <<Line(d, "// cnop\n", <<>>)>>

ProcessControlFlowInstructionEndText(d, index, wrote_pc) ==
  IF ~wrote_pc
    THEN <<Line(d, "// Falling through to L%u\n", <<index + 1>>)>>
    ELSE <<>>

ProcessExecInstructionBeginText(d, instr) ==
  <<Line(d, "// ", <<>>), Disassemble,
    CASE instr.type = "kUnconditional" -> Line(d, "{\n", <<>>)
      [] instr.type = "kConditional" ->
           BoolConstantTest(d, instr.bool_constant_index, instr.condition)
      [] instr.type = "kPredicated" -> PredicateTest(d, instr.condition)>>

\* the end of an exec block that forgets the halt of a final block
ProcessExecInstructionEndText_NoHalt(d, instr) == <<Line(d - 2, "}\n", <<>>)>>

ProcessExecInstructionEndText(d, instr) ==
  (IF instr.is_end
     THEN <<Line(d, "xe_pc = 0xFFFFu;\n", <<>>), Line(d, "break;\n", <<>>)>>
     ELSE <<>>)
  \o <<Line(d - 2, "}\n", <<>>)>>

\* the loop start that reloads the loop index in the repeat form too
ProcessLoopStartInstructionText_RepeatReloads(d, instr) ==
  <<Line(d, "// ", <<>>), Disassemble,
    Line(d, "xe_loop_count.yzw = xe_loop_count.xyz;\n", <<>>),
    Line(d, "xe_loop_count.x = xe_loop_constants[%u] & 0xFFu;\n",
         <<instr.loop_constant_index>>),
    Line(d, "xe_aL = xe_aL.xxyz;\n", <<>>)>>
  \o (IF TRUE
        THEN <<Line(d, "xe_aL.x = int((xe_loop_constants[%u] >> 8u) & 0xFFu);\n",
                    <<instr.loop_constant_index>>)>>
        ELSE <<>>)
  \o <<Line(d, "if (xe_loop_count.x == 0u) {\n", <<>>),
       Line(d, "  xe_pc = %uu;  // Skip loop to L%u\n",
            <<instr.loop_skip_address, instr.loop_skip_address>>),
       Line(d, "} else {\n", <<>>),
       Line(d, "  xe_pc = %uu;  // Fallthrough to loop body L%u\n",
            <<instr.dword_index + 1, instr.dword_index + 1>>),
       Line(d, "}\n", <<>>),
       Line(d, "break;\n", <<>>)>>

ProcessLoopStartInstructionText(d, instr) ==
  <<Line(d, "// ", <<>>), Disassemble,
    Line(d, "xe_loop_count.yzw = xe_loop_count.xyz;\n", <<>>),
    Line(d, "xe_loop_count.x = xe_loop_constants[%u] & 0xFFu;\n",
         <<instr.loop_constant_index>>),
    Line(d, "xe_aL = xe_aL.xxyz;\n", <<>>)>>
  \o (IF ~instr.is_repeat
        THEN <<Line(d, "xe_aL.x = int((xe_loop_constants[%u] >> 8u) & 0xFFu);\n",
                    <<instr.loop_constant_index>>)>>
        ELSE <<>>)
  \o <<Line(d, "if (xe_loop_count.x == 0u) {\n", <<>>),
       Line(d, "  xe_pc = %uu;  // Skip loop to L%u\n",
            <<instr.loop_skip_address, instr.loop_skip_address>>),
       Line(d, "} else {\n", <<>>),
       Line(d, "  xe_pc = %uu;  // Fallthrough to loop body L%u\n",
            <<instr.dword_index + 1, instr.dword_index + 1>>),
       Line(d, "}\n", <<>>),
       Line(d, "break;\n", <<>>)>>

\* the loop end whose exiting branch forgets to pop the loop index stack
ProcessLoopEndInstructionText_NoIndexPop(d, instr) ==
  <<Line(d, "// ", <<>>), Disassemble,
    Line(d, "if (--xe_loop_count.x == 0u", <<>>),
    IF instr.is_predicated_break
      THEN Part(IF instr.predicate_condition
                  THEN " ||  xe_p0) {\n" ELSE " || !xe_p0) {\n", <<>>)
      ELSE Part(") {\n", <<>>),
    Line(d + 2, "xe_loop_count.xyz = xe_loop_count.yzw;\n", <<>>),
    Line(d + 2, "xe_loop_count.w = 0u;\n", <<>>),
    Line(d + 2, "xe_pc = %uu;  // Exit loop to L%u\n",
         <<instr.dword_index + 1, instr.dword_index + 1>>),
    Line(d, "} else {\n", <<>>),
    Line(d + 2, "xe_aL.x += int(xe_loop_constants[%u] << 8u) >> 24;\n",
         <<instr.loop_constant_index>>),
    Line(d + 2, "xe_pc = %uu;  // Loop back to body L%u\n",
         <<instr.loop_body_address, instr.loop_body_address>>),
    Line(d, "}\n", <<>>),
    Line(d, "break;\n", <<>>)>>

ProcessLoopEndInstructionText(d, instr) ==
  <<Line(d, "// ", <<>>), Disassemble,
    Line(d, "if (--xe_loop_count.x == 0u", <<>>),
    IF instr.is_predicated_break
      THEN Part(IF instr.predicate_condition
                  THEN " ||  xe_p0) {\n" ELSE " || !xe_p0) {\n", <<>>)
      ELSE Part(") {\n", <<>>),
    Line(d + 2, "xe_loop_count.xyz = xe_loop_count.yzw;\n", <<>>),
    Line(d + 2, "xe_loop_count.w = 0u;\n", <<>>),
    Line(d + 2, "xe_aL.xyz = xe_aL.yzw;\n", <<>>),
    Line(d + 2, "xe_aL.w = 0;\n", <<>>),
    Line(d + 2, "xe_pc = %uu;  // Exit loop to L%u\n",
         <<instr.dword_index + 1, instr.dword_index + 1>>),
    Line(d, "} else {\n", <<>>),
    Line(d + 2, "xe_aL.x += int(xe_loop_constants[%u] << 8u) >> 24;\n",
         <<instr.loop_constant_index>>),
    Line(d + 2, "xe_pc = %uu;  // Loop back to body L%u\n",
         <<instr.loop_body_address, instr.loop_body_address>>),
    Line(d, "}\n", <<>>),
    Line(d, "break;\n", <<>>)>>

\* a call that only disassembles, without the marker
ProcessCallInstructionText_NoMarker(d) == <<Line(d, "// ", <<>>), Disassemble>>

ProcessCallInstructionText(d) ==
  <<Line(d, "// ", <<>>), Disassemble>> \o EmitUnimplementedTranslationErrorText(d)

ProcessReturnInstructionText(d) ==
  <<Line(d, "// ", <<>>), Disassemble>> \o EmitUnimplementedTranslationErrorText(d)

\* the jump whose else branch names the jump's own address
ProcessJumpInstructionText_ElseSelf(d, instr) ==
  LET needs_fallthrough == instr.type # "kUnconditional"
      next_address == instr.dword_index
  IN <<Line(d, "// ", <<>>), Disassemble,
       CASE instr.type = "kUnconditional" -> Line(d, "{\n", <<>>)
         [] instr.type = "kConditional" ->
              BoolConstantTest(d, instr.bool_constant_index, instr.condition)
         [] instr.type = "kPredicated" -> PredicateTest(d, instr.condition),
       Line(d + 2, "xe_pc = %uu;  // L%u\n",
            <<instr.target_address, instr.target_address>>),
       Line(d + 2, "break;\n", <<>>)>>
     \o (IF needs_fallthrough
           THEN <<Line(d, "} else {\n", <<>>),
                  Line(d, "  xe_pc = %uu;  // Fallthrough to L%u\n",
                       <<next_address, next_address>>)>>
           ELSE <<>>)
     \o <<Line(d, "}\n", <<>>)>>

ProcessJumpInstructionText(d, instr) ==
  LET needs_fallthrough == instr.type # "kUnconditional"
      next_address == instr.dword_index + 1
  IN <<Line(d, "// ", <<>>), Disassemble,
       CASE instr.type = "kUnconditional" -> Line(d, "{\n", <<>>)
         [] instr.type = "kConditional" ->
              BoolConstantTest(d, instr.bool_constant_index, instr.condition)
         [] instr.type = "kPredicated" -> PredicateTest(d, instr.condition),
       Line(d + 2, "xe_pc = %uu;  // L%u\n",
            <<instr.target_address, instr.target_address>>),
       Line(d + 2, "break;\n", <<>>)>>
     \o (IF needs_fallthrough
           THEN <<Line(d, "} else {\n", <<>>),
                  Line(d, "  xe_pc = %uu;  // Fallthrough to L%u\n",
                       <<next_address, next_address>>)>>
           ELSE <<>>)
     \o <<Line(d, "}\n", <<>>)>>

ProcessAllocInstructionText(d) == <<Line(d, "// ", <<>>), Disassemble>>

-----------------------------------------------------------------------------
(* Operands and results *)

SwizzleSources == {"kX", "kY", "kZ", "kW", "k0", "k1"}
StorageSources == {"kRegister", "kConstantFloat", "kConstantInt", "kConstantBool",
                   "kVertexFetchConstant"}
StorageTargets == {"kNone", "kRegister", "kInterpolant", "kPosition", "kPointSize",
                   "kColorTarget", "kDepth"}
AddressingModes == {"kStatic", "kAddressAbsolute", "kAddressRelative"}

GetCharForSwizzle(swizzle_source) ==
  CASE swizzle_source = "kX" -> "x"
    [] swizzle_source = "kY" -> "y"
    [] swizzle_source = "kZ" -> "z"
    [] swizzle_source = "kW" -> "w"
    [] swizzle_source = "k0" -> "0"
    [] swizzle_source = "k1" -> "1"

GetSwizzleFromComponentIndex(i) == <<"kX", "kY", "kZ", "kW">>[i + 1]

\* InstructionOperand::is_standard_swizzle
is_standard_swizzle(op) ==
  op.component_count = 4 /\ op.components = <<"kX", "kY", "kZ", "kW">>

\* InstructionResult::has_any_writes
has_any_writes(result) == \E i \in 1..4 : result.write_mask[i]

\* the concatenation of f(lo), f(lo + 1), ..., f(hi)
RECURSIVE Flatten(_)
Flatten(seqs) == IF seqs = <<>> THEN <<>> ELSE Head(seqs) \o Flatten(Tail(seqs))

\* f is a function on lo..hi
ConcatFor(lo, hi, f) == Flatten([i \in 1..(hi - lo + 1) |-> f[lo + i - 1]])

\* an index mask that is the register mask for every storage source
LoadOperandIndexMax_Register(op) == kRegisterIndexMax

LoadOperandIndexMax(op) ==
  CASE op.storage_source = "kRegister" -> kRegisterIndexMax
    [] op.storage_source \in {"kConstantFloat", "kConstantBool"} -> kConstantFloatIndexMax
    [] op.storage_source = "kConstantInt" -> kConstantIntIndexMax

\* the padding that repeats the first requested selector instead of the last
LoadOperandSwizzleText_FillFirst(op) ==
  IF op.storage_source \in {"kConstantInt", "kConstantBool"}
    THEN <<Part(".xxxx", <<>>)>>
    ELSE IF ~is_standard_swizzle(op)
      THEN LET First(i) == <<Part(GetCharForSwizzle(op.components[i + 1]), <<>>)>>
               Fill(i) == <<Part(GetCharForSwizzle(op.components[1]), <<>>)>>
           IN <<Part(".", <<>>)>>
              \o ConcatFor(0, op.component_count - 1, [i \in (0)..(op.component_count - 1) |-> First(i)])
              \o ConcatFor(op.component_count, 3, [i \in (op.component_count)..(3) |-> Fill(i)])
      ELSE <<>>

\* the four selector characters (or none) after the operand expression
LoadOperandSwizzleText(op) ==
  IF op.storage_source \in {"kConstantInt", "kConstantBool"}
    THEN <<Part(".xxxx", <<>>)>>
    ELSE IF ~is_standard_swizzle(op)
      THEN LET First(i) == <<Part(GetCharForSwizzle(op.components[i + 1]), <<>>)>>
               Fill(i) == <<Part(GetCharForSwizzle(op.components[op.component_count]),
                                 <<>>)>>
           IN <<Part(".", <<>>)>>
              \o ConcatFor(0, op.component_count - 1, [i \in (0)..(op.component_count - 1) |-> First(i)])
              \o ConcatFor(op.component_count, 3, [i \in (op.component_count)..(3) |-> Fill(i)])
      ELSE <<>>

EmitLoadOperandText(d, src_index, op) ==
  IF op.storage_source \notin
       {"kRegister", "kConstantFloat", "kConstantInt", "kConstantBool"}
    THEN <<>>  \* assert_always(); return;
    ELSE
      (CASE op.storage_addressing_mode = "kAddressAbsolute" ->
              <<Line(d, "xe_src_index = uint(%u + xe_a0) & %uu;\n",
                     <<op.storage_index, LoadOperandIndexMax(op)>>)>>
         [] op.storage_addressing_mode = "kAddressRelative" ->
              <<Line(d, "xe_src_index = uint(%u + xe_aL.x) & %uu;\n",
                     <<op.storage_index, LoadOperandIndexMax(op)>>)>>
         [] OTHER -> <<>>)
      \o <<Line(d, "xe_src%u = ", <<src_index>>)>>
      \o (IF op.is_negated THEN <<Part("-", <<>>)>> ELSE <<>>)
      \o (IF op.is_absolute_value THEN <<Part("abs", <<>>)>> ELSE <<>>)
      \o <<Part("(", <<>>)>>
      \o (IF op.storage_addressing_mode = "kStatic"
            THEN CASE op.storage_source = "kRegister" ->
                        <<Part("xe_r[%u]", <<op.storage_index>>)>>
                   [] op.storage_source = "kConstantFloat" ->
                        <<Part("xe_float_constants[%u].c[%u]",
                               <<Shr(op.storage_index, 5), LowBits(op.storage_index, 5)>>)>>
                   [] op.storage_source = "kConstantInt" ->
                        <<Part("xe_loop_constants[%u]", <<op.storage_index>>)>>
                   [] op.storage_source = "kConstantBool" ->
                        <<Part("float((xe_bool_constants[%u] >> %uu) & 1u)",
                               <<Shr(op.storage_index, 5), LowBits(op.storage_index, 5)>>)>>
            ELSE CASE op.storage_source = "kRegister" ->
                        <<Part("xe_r[xe_src_index]", <<>>)>>
                   [] op.storage_source = "kConstantFloat" ->
                        <<Part("xe_float_constants[xe_src_index >> 5u].c[xe_src_index & 31u]",
                               <<>>)>>
                   [] op.storage_source = "kConstantInt" ->
                        <<Part("xe_loop_constants[xe_src_index]", <<>>)>>
                   [] op.storage_source = "kConstantBool" ->
                        <<Part("float((xe_bool_constants[xe_src_index >> 5u] >> (xe_src_index & 31u)) & 1u)",
                               <<>>)>>)
      \o <<Part(")", <<>>)>>
      \o LoadOperandSwizzleText(op)
      \o <<Part(";\n", <<>>)>>

storage_is_scalar(result) == result.storage_target \in {"kPointSize", "kDepth"}

\* the mask test that lets every scalar target through
StoreResultPassesMask_ScalarAlways(result) ==
  IF storage_is_scalar(result) THEN TRUE ELSE has_any_writes(result)

\* FALSE when EmitStoreResult takes one of its early returns (lines 643-651)
StoreResultPassesMask(result) ==
  IF storage_is_scalar(result) THEN result.write_mask[1] ELSE has_any_writes(result)

\* whether EmitStoreResult emits anything at all
StoreResultEmits(result) ==
  StoreResultPassesMask(result) /\ result.storage_target # "kNone"

\* whether EmitStoreResult sets writes_depth_
StoreResultWritesDepth(result) ==
  StoreResultPassesMask(result) /\ result.storage_target = "kDepth"

StoreSourceComponent(component, source_is_scalar) ==
  CASE component = "k0" -> Part("0.0", <<>>)
    [] component = "k1" -> Part("1.0", <<>>)
    [] OTHER -> IF source_is_scalar
                  THEN Part("xe_ps", <<>>)
                  ELSE Part("xe_pv." \o GetCharForSwizzle(component), <<>>)

EmitStoreResultText(d, result, source_is_scalar) ==
  IF ~StoreResultEmits(result) THEN <<>> ELSE
  LET storage_is_array ==
        result.storage_target \in {"kRegister", "kInterpolant", "kColorTarget"}
      Written == {i \in 1..4 : result.write_mask[i]}
      component_write_count == Cardinality(Written)
      has_const_writes ==
        \E i \in Written : result.components[i] \in {"k0", "k1"}
      Clamp(text) == IF result.is_clamped THEN <<Part(text, <<>>)>> ELSE <<>>
      MaskChar(i) ==
        IF result.write_mask[i + 1]
          THEN <<Part(GetCharForSwizzle(GetSwizzleFromComponentIndex(i)), <<>>)>>
          ELSE <<>>
      \* ", " before every written component but the first
      ConstWrite(i) ==
        IF result.write_mask[i + 1]
          THEN (IF \E j \in Written : j < i + 1 THEN <<Part(", ", <<>>)>> ELSE <<>>)
               \o <<StoreSourceComponent(result.components[i + 1], source_is_scalar)>>
          ELSE <<>>
      SourceChar(i) ==
        IF result.write_mask[i + 1]
          THEN <<Part(GetCharForSwizzle(result.components[i + 1]), <<>>)>>
          ELSE <<>>
  IN <<Line(d, CASE result.storage_target = "kRegister" -> "xe_r"
                 [] result.storage_target = "kInterpolant" -> "xe_output.interpolators"
                 [] result.storage_target = "kPosition" -> "xe_output.position"
                 [] result.storage_target = "kPointSize" -> "xe_output.point_size"
                 [] result.storage_target = "kColorTarget" -> "xe_output.colors"
                 [] result.storage_target = "kDepth" -> "xe_output.depth",
            <<>>)>>
     \o (IF storage_is_array
           THEN <<Part(CASE result.storage_addressing_mode = "kStatic" -> "[%u]"
                         [] result.storage_addressing_mode = "kAddressAbsolute" ->
                              "[%u + xe_a0]"
                         [] result.storage_addressing_mode = "kAddressRelative" ->
                              "[%u + xe_aL.x]",
                       <<result.storage_index>>)>>
           ELSE <<>>)
     \o (IF storage_is_scalar(result)
           THEN <<Part(" = ", <<>>)>>
                \o (IF result.components[1] \in {"k0", "k1"}
                      THEN <<StoreSourceComponent(result.components[1], source_is_scalar)>>
                      ELSE Clamp("saturate(")
                           \o <<StoreSourceComponent(result.components[1], source_is_scalar)>>
                           \o Clamp(")"))
           ELSE <<Part(".", <<>>)>>
                \o ConcatFor(0, 3, [i \in (0)..(3) |-> MaskChar(i)])
                \o <<Part(" = ", <<>>)>>
                \o Clamp("saturate(")
                \o (IF has_const_writes
                      THEN (IF component_write_count > 1
                              THEN <<Part("float%u(", <<component_write_count>>)>>
                              ELSE <<>>)
                           \o ConcatFor(0, 3, [i \in (0)..(3) |-> ConstWrite(i)])
                           \o (IF component_write_count > 1
                                 THEN <<Part(")", <<>>)>> ELSE <<>>)
                      ELSE IF source_is_scalar
                        THEN <<Part("xe_ps", <<>>)>>
                             \o (IF component_write_count > 1
                                   THEN <<Part(".x", <<>>)>> ELSE <<>>)
                             \o (IF component_write_count > 2
                                   THEN <<Part("x", <<>>)>> ELSE <<>>)
                             \o (IF component_write_count > 3
                                   THEN <<Part("x", <<>>)>> ELSE <<>>)
                        ELSE <<Part("xe_pv.", <<>>)>> \o ConcatFor(0, 3, [i \in (0)..(3) |-> SourceChar(i)]))
                \o Clamp(")"))
     \o <<Part(";\n", <<>>)>>

\* BeginPredicatedInstruction: its return value, and the text it emits
BeginPredicatedInstruction(is_predicated, predicate_condition, exec_pred, exec_pred_cond) ==
  is_predicated /\ (~exec_pred \/ exec_pred_cond # predicate_condition)

BeginPredicatedInstructionText(d, conditional_emitted, predicate_condition) ==
  IF conditional_emitted THEN <<PredicateTest(d, predicate_condition)>> ELSE <<>>

EndPredicatedInstructionText(d, conditional_emitted) ==
  IF conditional_emitted THEN <<Line(d, "}\n", <<>>)>> ELSE <<>>

-----------------------------------------------------------------------------
(* ALU opcodes: the statements emitted for each (lines 1087-1201, 1217-1395) *)

AluVectorOpcodes ==
  {"kAdd", "kMul", "kMax", "kSeq", "kSgt", "kSge", "kSne", "kFrc",
   "kTrunc", "kFloor", "kMad", "kCndEq", "kCndGe", "kCndGt", "kDp4",
   "kDp3", "kDp2Add", "kCube", "kMax4", "kSetpEqPush", "kSetpNePush",
   "kSetpGtPush", "kSetpGePush", "kKillEq", "kKillGt", "kKillGe",
   "kKillNe", "kDst", "kMaxA"}

AluScalarOpcodes ==
  {"kAdds", "kAddsPrev", "kMuls", "kMulsPrev", "kMulsPrev2", "kMaxs",
   "kMins", "kSeqs", "kSgts", "kSges", "kSnes", "kFrcs", "kTruncs",
   "kFloors", "kExp", "kLogc", "kLog", "kRcpc", "kRcpf", "kRcp",
   "kRsqc", "kRsqf", "kRsq", "kMaxAs", "kMaxAsf", "kSubs",
   "kSubsPrev", "kSetpEq", "kSetpNe", "kSetpGt", "kSetpGe",
   "kSetpInv", "kSetpPop", "kSetpClr", "kSetpRstr", "kKillsEq",
   "kKillsGt", "kKillsGe", "kKillsNe", "kKillsOne", "kSqrt",
   "kMulsc0", "kMulsc1", "kAddsc0", "kAddsc1", "kSubsc0", "kSubsc1",
   "kSin", "kCos", "kRetainPrev"}

\* the opcodes whose case clears cf_exec_pred_
VectorSetpOpcodes ==
  {"kSetpEqPush", "kSetpNePush", "kSetpGtPush", "kSetpGePush"}

ScalarSetpOpcodes ==
  {"kSetpEq", "kSetpNe", "kSetpGt", "kSetpGe", "kSetpInv", "kSetpPop",
   "kSetpClr", "kSetpRstr"}

VectorOpcodeText(d, opcode) ==
  CASE opcode = "kAdd" ->
          <<Line(d, "xe_pv = xe_src0 + xe_src1;\n", <<>>)>>
    [] opcode = "kMul" ->
          <<Line(d, "xe_pv = xe_src0 * xe_src1;\n", <<>>)>>
    [] opcode = "kMax" ->
          <<Line(d, "xe_pv = max(xe_src0, xe_src1);\n", <<>>)>>
    [] opcode = "kSeq" ->
          <<Line(d, "xe_pv = float4(xe_src0 == xe_src1);\n", <<>>)>>
    [] opcode = "kSgt" ->
          <<Line(d, "xe_pv = float4(xe_src0 > xe_src1);\n", <<>>)>>
    [] opcode = "kSge" ->
          <<Line(d, "xe_pv = float4(xe_src0 >= xe_src1);\n", <<>>)>>
    [] opcode = "kSne" ->
          <<Line(d, "xe_pv = float4(xe_src0 != xe_src1);\n", <<>>)>>
    [] opcode = "kFrc" ->
          <<Line(d, "xe_pv = frac(xe_src0);\n", <<>>)>>
    [] opcode = "kTrunc" ->
          <<Line(d, "xe_pv = trunc(xe_src0);\n", <<>>)>>
    [] opcode = "kFloor" ->
          <<Line(d, "xe_pv = floor(xe_src0);\n", <<>>)>>
    [] opcode = "kMad" ->
          <<Line(d, "xe_pv = xe_src0 * xe_src1 + xe_src2;\n", <<>>)>>
    [] opcode = "kCndEq" ->
          <<Line(d, "xe_pv = lerp(xe_src2, xe_src1, float4(xe_src0 == (0.0).xxxx));\n", <<>>)>>
    [] opcode = "kCndGe" ->
          <<Line(d, "xe_pv = lerp(xe_src2, xe_src1, float4(xe_src0 >= (0.0).xxxx));\n", <<>>)>>
    [] opcode = "kCndGt" ->
          <<Line(d, "xe_pv = lerp(xe_src2, xe_src1, float4(xe_src0 > (0.0).xxxx));\n", <<>>)>>
    [] opcode = "kDp4" ->
          <<Line(d, "xe_pv = dot(xe_src0, xe_src1).xxxx;\n", <<>>)>>
    [] opcode = "kDp3" ->
          <<Line(d, "xe_pv = dot(xe_src0.xyz, xe_src1.xyz).xxxx;\n", <<>>)>>
    [] opcode = "kDp2Add" ->
          <<Line(d, "xe_pv = (dot(xe_src0.xy, xe_src1.xy) + xe_src2.x).xxxx;\n", <<>>)>>
    [] opcode = "kCube" ->
          <<Line(d, "xe_pv = XeCubeTo2D(xe_src0.xyz);\n", <<>>)>>
    [] opcode = "kMax4" ->
          <<Line(d, "xe_pv.xy = max(xe_src0.xy, xe_src0.zw);\n", <<>>),
            Line(d, "xe_pv.xxxx = max(xe_pv.x, xe_pv.y);\n", <<>>)>>
    [] opcode = "kSetpEqPush" ->
          <<Line(d, "xe_p0 = xe_src0.w == 0.0 && xe_src1.w == 0.0;\n", <<>>),
            Line(d, "xe_pv = (xe_src0.x == 0.0 && xe_src1.x == 0.0 ? 0.0 : xe_src0.x + 1.0).xxxx;\n", <<>>)>>
    [] opcode = "kSetpNePush" ->
          <<Line(d, "xe_p0 = xe_src0.w == 0.0 && xe_src1.w != 0.0;\n", <<>>),
            Line(d, "xe_pv = (xe_src0.x == 0.0 && xe_src1.x != 0.0 ? 0.0 : xe_src0.x + 1.0).xxxx;\n", <<>>)>>
    [] opcode = "kSetpGtPush" ->
          <<Line(d, "xe_p0 = xe_src0.w == 0.0 && xe_src1.w > 0.0;\n", <<>>),
            Line(d, "xe_pv = (xe_src0.x == 0.0 && xe_src1.x > 0.0 ? 0.0 : xe_src0.x + 1.0).xxxx;\n", <<>>)>>
    [] opcode = "kSetpGePush" ->
          <<Line(d, "xe_p0 = xe_src0.w == 0.0 && xe_src1.w >= 0.0;\n", <<>>),
            Line(d, "xe_pv = (xe_src0.x == 0.0 && xe_src1.x >= 0.0 ? 0.0 : xe_src0.x + 1.0).xxxx;\n", <<>>)>>
    [] opcode = "kKillEq" ->
          <<Line(d, "xe_pv.xxxx = float(any(xe_src0 == xe_src1));\n", <<>>),
            Line(d, "clip(-xe_pv.x);\n", <<>>)>>
    [] opcode = "kKillGt" ->
          <<Line(d, "xe_pv.xxxx = float(any(xe_src0 > xe_src1));\n", <<>>),
            Line(d, "clip(-xe_pv.x);\n", <<>>)>>
    [] opcode = "kKillGe" ->
          <<Line(d, "xe_pv.xxxx = float(any(xe_src0 >= xe_src1));\n", <<>>),
            Line(d, "clip(-xe_pv.x);\n", <<>>)>>
    [] opcode = "kKillNe" ->
          <<Line(d, "xe_pv.xxxx = float(any(xe_src0 != xe_src1));\n", <<>>),
            Line(d, "clip(-xe_pv.x);\n", <<>>)>>
    [] opcode = "kDst" ->
          <<Line(d, "xe_pv.x = 1.0;\n", <<>>),
            Line(d, "xe_pv.y = xe_src0.y * xe_src1.y;\n", <<>>),
            Line(d, "xe_pv.z = xe_src0.z;\n", <<>>),
            Line(d, "xe_pv.w = xe_src1.w;\n", <<>>)>>
    [] opcode = "kMaxA" ->
          <<Line(d, "xe_a0 = clamp(int(round(xe_src0.w)), -256, 255);\n", <<>>),
            Line(d, "xe_pv = max(xe_src0, xe_src1);\n", <<>>)>>

ScalarOpcodeText(d, opcode) ==
  CASE opcode = "kAdds" ->
          <<Line(d, "xe_ps = xe_src0.x + xe_src0.y;\n", <<>>)>>
    [] opcode = "kAddsPrev" ->
          <<Line(d, "xe_ps += xe_src0.x;\n", <<>>)>>
    [] opcode = "kMuls" ->
          <<Line(d, "xe_ps = xe_src0.x * xe_src0.y;\n", <<>>)>>
    [] opcode = "kMulsPrev" ->
          <<Line(d, "xe_ps *= xe_src0.x;\n", <<>>)>>
    [] opcode = "kMulsPrev2" ->
          <<Line(d, "xe_ps = (xe_ps == -XE_FLT_MAX || (isinf(xe_ps) && xe_ps < 0.0)\n", <<>>),
            Line(d, "    || isnan(xe_ps) || xe_src0.y <= 0.0 || isnan(xe_src0.y)) ?\n", <<>>),
            Line(d, "    -XE_FLT_MAX : xe_src0.x * xe_ps;\n", <<>>)>>
    [] opcode = "kMaxs" ->
          <<Line(d, "xe_ps = max(xe_src0.x, xe_src0.y);\n", <<>>)>>
    [] opcode = "kMins" ->
          <<Line(d, "xe_ps = max(xe_src0.x, xe_src0.y);\n", <<>>)>>
    [] opcode = "kSeqs" ->
          <<Line(d, "xe_ps = float(xe_src0.x == 0.0);\n", <<>>)>>
    [] opcode = "kSgts" ->
          <<Line(d, "xe_ps = float(xe_src0.x > 0.0);\n", <<>>)>>
    [] opcode = "kSges" ->
          <<Line(d, "xe_ps = float(xe_src0.x >= 0.0);\n", <<>>)>>
    [] opcode = "kSnes" ->
          <<Line(d, "xe_ps = float(xe_src0.x != 0.0);\n", <<>>)>>
    [] opcode = "kFrcs" ->
          <<Line(d, "xe_ps = frac(xe_src0.x);\n", <<>>)>>
    [] opcode = "kTruncs" ->
          <<Line(d, "xe_ps = trunc(xe_src0.x);\n", <<>>)>>
    [] opcode = "kFloors" ->
          <<Line(d, "xe_ps = floor(xe_src0.x);\n", <<>>)>>
    [] opcode = "kExp" ->
          <<Line(d, "xe_ps = exp2(xe_src0.x);\n", <<>>)>>
    [] opcode = "kLogc" ->
          <<Line(d, "xe_ps = log2(xe_src0.x);\n", <<>>),
            Line(d, "xe_ps = (isinf(xe_ps) && xe_ps < 0.0) ? -XE_FLT_MAX : ps;\n", <<>>)>>
    [] opcode = "kLog" ->
          <<Line(d, "xe_ps = log2(xe_src0.x);\n", <<>>)>>
    [] opcode = "kRcpc" ->
          <<Line(d, "xe_ps = clamp(rcp(xe_src0.x), -XE_FLT_MAX, XE_FLT_MAX);\n", <<>>)>>
    [] opcode = "kRcpf" ->
          <<Line(d, "xe_ps = rcp(xe_src0.x);\n", <<>>),
            Line(d, "xe_ps *= float(!isinf(xe_ps));\n", <<>>)>>
    [] opcode = "kRcp" ->
          <<Line(d, "xe_ps = rcp(xe_src0.x);\n", <<>>)>>
    [] opcode = "kRsqc" ->
          <<Line(d, "xe_ps = clamp(rsqrt(xe_src0.x), -XE_FLT_MAX, XE_FLT_MAX);\n", <<>>)>>
    [] opcode = "kRsqf" ->
          <<Line(d, "xe_ps = rsqrt(xe_src0.x);\n", <<>>),
            Line(d, "xe_ps *= float(!isinf(xe_ps));\n", <<>>)>>
    [] opcode = "kRsq" ->
          <<Line(d, "xe_ps = rsqrt(xe_src0.x);\n", <<>>)>>
    [] opcode = "kMaxAs" ->
          <<Line(d, "xe_a0 = clamp(int(round(xe_src0.x)), -256, 255);\n", <<>>),
            Line(d, "xe_ps = max(xe_src0.x, xe_src0.y);\n", <<>>)>>
    [] opcode = "kMaxAsf" ->
          <<Line(d, "xe_a0 = clamp(int(floor(xe_src0.x)), -256, 255);\n", <<>>),
            Line(d, "xe_ps = max(xe_src0.x, xe_src0.y);\n", <<>>)>>
    [] opcode = "kSubs" ->
          <<Line(d, "xe_ps = xe_src0.x - xe_src0.y;\n", <<>>)>>
    [] opcode = "kSubsPrev" ->
          <<Line(d, "xe_ps = xe_src0.x - xe_ps;\n", <<>>)>>
    [] opcode = "kSetpEq" ->
          <<Line(d, "xe_p0 = xe_src0.x == 0.0;\n", <<>>),
            Line(d, "xe_ps = float(!xe_p0);\n", <<>>)>>
    [] opcode = "kSetpNe" ->
          <<Line(d, "xe_p0 = xe_src0.x != 0.0;\n", <<>>),
            Line(d, "xe_ps = float(!xe_p0);\n", <<>>)>>
    [] opcode = "kSetpGt" ->
          <<Line(d, "xe_p0 = xe_src0.x > 0.0;\n", <<>>),
            Line(d, "xe_ps = float(!xe_p0);\n", <<>>)>>
    [] opcode = "kSetpGe" ->
          <<Line(d, "xe_p0 = xe_src0.x >= 0.0;\n", <<>>),
            Line(d, "xe_ps = float(!xe_p0);\n", <<>>)>>
    [] opcode = "kSetpInv" ->
          <<Line(d, "xe_p0 = xe_src0.x == 1.0;\n", <<>>),
            Line(d, "xe_ps = float(!xe_p0) * (xe_src0.x == 0.0 ? 1.0 : xe_src0.x);\n", <<>>)>>
    [] opcode = "kSetpPop" ->
          <<Line(d, "xe_ps = max(xe_src0.x - 1.0, 0.0);\n", <<>>),
            Line(d, "xe_p0 = xe_ps == 0.0;\n", <<>>)>>
    [] opcode = "kSetpClr" ->
          <<Line(d, "xe_ps = false;\n", <<>>),
            Line(d, "xe_p0 = XE_FLT_MAX;\n", <<>>)>>
    [] opcode = "kSetpRstr" ->
          <<Line(d, "xe_p0 = src0.x == 0.0;\n", <<>>),
            Line(d, "xe_ps = src0.x;\n", <<>>)>>
    [] opcode = "kKillsEq" ->
          <<Line(d, "xe_ps = float(xe_src0.x == 0.0);\n", <<>>),
            Line(d, "clip(-xe_ps);\n", <<>>)>>
    [] opcode = "kKillsGt" ->
          <<Line(d, "xe_ps = float(xe_src0.x > 0.0);\n", <<>>),
            Line(d, "clip(-xe_ps);\n", <<>>)>>
    [] opcode = "kKillsGe" ->
          <<Line(d, "xe_ps = float(xe_src0.x >= 0.0);\n", <<>>),
            Line(d, "clip(-xe_ps);\n", <<>>)>>
    [] opcode = "kKillsNe" ->
          <<Line(d, "xe_ps = float(xe_src0.x != 0.0);\n", <<>>),
            Line(d, "clip(-xe_ps);\n", <<>>)>>
    [] opcode = "kKillsOne" ->
          <<Line(d, "xe_ps = float(xe_src0.x == 1.0);\n", <<>>),
            Line(d, "clip(-xe_ps);\n", <<>>)>>
    [] opcode = "kSqrt" ->
          <<Line(d, "xe_ps = float(xe_src0.x);\n", <<>>)>>
    [] opcode \in {"kMulsc0", "kMulsc1"} ->
          <<Line(d, "xe_ps = xe_src0.x * xe_src1.x;\n", <<>>)>>
    [] opcode \in {"kAddsc0", "kAddsc1"} ->
          <<Line(d, "xe_ps = xe_src0.x + xe_src1.x;\n", <<>>)>>
    [] opcode \in {"kSubsc0", "kSubsc1"} ->
          <<Line(d, "xe_ps = xe_src0.x - xe_src1.x;\n", <<>>)>>
    [] opcode = "kSin" ->
          <<Line(d, "xe_ps = sin(xe_src0.x);\n", <<>>)>>
    [] opcode = "kCos" ->
          <<Line(d, "xe_ps = cos(xe_src0.x);\n", <<>>)>>
    [] opcode = "kRetainPrev" ->
          <<>>


\* ProcessVectorAluInstruction / ProcessScalarAluInstruction
ProcessOpcodeAluInstructionText(d, instr, exec_pred, exec_pred_cond) ==
  LET conditional_emitted ==
        BeginPredicatedInstruction(instr.is_predicated, instr.predicate_condition,
                                   exec_pred, exec_pred_cond)
      di == IF conditional_emitted THEN d + 2 ELSE d
      Load(i) == EmitLoadOperandText(di, i, instr.operands[i + 1])
  IN BeginPredicatedInstructionText(d, conditional_emitted, instr.predicate_condition)
     \o ConcatFor(0, instr.operand_count - 1, [i \in (0)..(instr.operand_count - 1) |-> Load(i)])
     \o (IF instr.type = "kVector"
           THEN VectorOpcodeText(di, instr.vector_opcode)
           ELSE ScalarOpcodeText(di, instr.scalar_opcode))
     \o EmitStoreResultText(di, instr.result, instr.type = "kScalar")
     \o EndPredicatedInstructionText(d, conditional_emitted)

ProcessAluInstructionText(d, instr, exec_pred, exec_pred_cond) ==
  <<Line(d, "// ", <<>>), Disassemble>>
  \o (IF instr.type = "kNop"
        THEN <<>>
        ELSE ProcessOpcodeAluInstructionText(d, instr, exec_pred, exec_pred_cond))

\* a cf_exec_pred_ that the setp opcodes leave alone
AluExecPred_Kept(instr, exec_pred) == exec_pred

\* cf_exec_pred_ after ProcessAluInstruction
AluExecPred(instr, exec_pred) ==
  IF \/ instr.type = "kVector" /\ instr.vector_opcode \in VectorSetpOpcodes
     \/ instr.type = "kScalar" /\ instr.scalar_opcode \in ScalarSetpOpcodes
    THEN FALSE
    ELSE exec_pred

\* cube_used_ after ProcessAluInstruction
AluCubeUsed(instr, cube_used) ==
  cube_used \/ (instr.type = "kVector" /\ instr.vector_opcode = "kCube")

-----------------------------------------------------------------------------
(* Fetches *)

VertexFormats ==
  {"k_8_8_8_8",
   "k_2_10_10_10",
   "k_10_11_11",
   "k_11_11_10",
   "k_16_16",
   "k_16_16_16_16",
   "k_16_16_FLOAT",
   "k_16_16_16_16_FLOAT",
   "k_32",
   "k_32_32",
   "k_32_32_32_32",
   "k_32_FLOAT",
   "k_32_32_FLOAT",
   "k_32_32_32_32_FLOAT",
   "k_32_32_32_FLOAT"}

\* the 8_8_8_8 conversion that reads signed data as unsigned
VertexFormatText_Unsigned(d, attributes) ==
  IF attributes.data_format # "k_8_8_8_8" THEN <<>>
  ELSE <<Line(d, "xe_vertex_element = (xe_vertex_element.xxxx >>\n", <<>>),
         Line(d, "    uint4(0u, 8u, 16u, 24u)) & 255u;\n", <<>>),
         Line(d, "xe_pv = float4(xe_vertex_element);\n", <<>>)>>
       \o (IF ~attributes.is_integer
             THEN (IF attributes.is_signed
                     THEN <<Line(d, "xe_pv = max(xe_pv * (1.0 / 127.0), (-1.0).xxxx);\n",
                                 <<>>)>>
                     ELSE <<Line(d, "xe_pv *= 1.0 / 255.0;\n", <<>>)>>)
             ELSE <<>>)

\* the conversion of the loaded element to the target format (lines 850-1030)
VertexFormatText(d, attributes) ==
  CASE attributes.data_format = "k_8_8_8_8" ->
         <<Line(d, "xe_vertex_element = (xe_vertex_element.xxxx >>\n", <<>>),
           Line(d, "    uint4(0u, 8u, 16u, 24u)) & 255u;\n", <<>>)>>
         \o (IF attributes.is_signed
            THEN <<Line(d, "xe_pv = float4(int4(xe_vertex_element << 24u) >> 24);\n", <<>>)>>
            ELSE <<Line(d, "xe_pv = float4(xe_vertex_element);\n", <<>>)>>)
         \o (IF ~attributes.is_integer
            THEN (IF attributes.is_signed
                    THEN <<Line(d, "xe_pv = max(xe_pv * (1.0 / 127.0), (-1.0).xxxx);\n", <<>>)>>
                    ELSE <<Line(d, "xe_pv *= 1.0 / 255.0;\n", <<>>)>>)
            ELSE <<>>)
    [] attributes.data_format = "k_2_10_10_10" ->
         <<Line(d, "xe_vertex_element = (xe_vertex_element.xxxx >>\n", <<>>),
           Line(d, "    uint4(0u, 10u, 20u, 30u)) & uint4((1023u).xxx, 3u);\n", <<>>)>>
         \o (IF attributes.is_signed
            THEN <<Line(d, "xe_pv = float4(int4(xe_vertex_element << uint4((22u).xxx, 3u))\n", <<>>),
                   Line(d, "    >> int4((22).xxx, 3));\n", <<>>)>>
            ELSE <<Line(d, "xe_pv = float4(xe_vertex_element);\n", <<>>)>>)
         \o (IF ~attributes.is_integer
            THEN (IF attributes.is_signed
                    THEN <<Line(d, "xe_pv = max(xe_pv * float4((1.0 / 511.0).xxx, 1.0), (-1.0).xxxx);\n", <<>>)>>
                    ELSE <<Line(d, "xe_pv *= float4((1.0 / 1023.0).xxx, 1.0 / 3.0);\n", <<>>)>>)
            ELSE <<>>)
    [] attributes.data_format = "k_10_11_11" ->
         <<Line(d, "xe_vertex_element.xyz = (xe_vertex_element.xxx >>\n", <<>>),
           Line(d, "    uint3(0u, 11u, 22u)) & uint3(2047u, 2047u, 1023u);\n", <<>>)>>
         \o (IF attributes.is_signed
            THEN <<Line(d, "xe_pv.xyz = float3(int3(xe_vertex_element.xyz <<\n", <<>>),
                   Line(d, "    uint3(21u, 21u, 22u)) >> int3(21, 21, 22));\n", <<>>)>>
            ELSE <<Line(d, "xe_pv.xyz = float3(xe_vertex_element.xyz);\n", <<>>)>>)
         \o (IF ~attributes.is_integer
            THEN (IF attributes.is_signed
                    THEN <<Line(d, "xe_pv.xyz = max(xe_pv.xyz *\n", <<>>),
                           Line(d, "    float3((1.0 / 1023.0).xx, 1.0 / 511.0), (-1.0).xxx);\n", <<>>)>>
                    ELSE <<Line(d, "xe_pv.xyz *= float3((1.0 / 2047.0).xx, 1.0 / 1023.0);\n", <<>>)>>)
            ELSE <<>>)
         \o <<Line(d, "xe_pv.w = 1.0;\n", <<>>)>>
    [] attributes.data_format = "k_11_11_10" ->
         <<Line(d, "xe_vertex_element.xyz = (xe_vertex_element.xxx >>\n", <<>>),
           Line(d, "    uint3(0u, 10u, 21u)) & uint3(1023u, 2047u, 2047u);\n", <<>>)>>
         \o (IF attributes.is_signed
            THEN <<Line(d, "xe_pv.xyz = float3(int3(xe_vertex_element.xyz <<\n", <<>>),
                   Line(d, "    uint3(22u, 21u, 21u)) >> int3(22, 21, 21));\n", <<>>)>>
            ELSE <<Line(d, "xe_pv.xyz = float3(xe_vertex_element.xyz);\n", <<>>)>>)
         \o (IF ~attributes.is_integer
            THEN (IF attributes.is_signed
                    THEN <<Line(d, "xe_pv.xyz = max(xe_pv.xyz *\n", <<>>),
                           Line(d, "    float3(1.0 / 511.0, (1.0 / 1023.0).xx), (-1.0).xxx);\n", <<>>)>>
                    ELSE <<Line(d, "xe_pv.xyz *= float3(1.0 / 1023.0, (1.0 / 2047.0).xx);\n", <<>>)>>)
            ELSE <<>>)
         \o <<Line(d, "xe_pv.w = 1.0;\n", <<>>)>>
    [] attributes.data_format = "k_16_16" ->
         <<Line(d, "xe_vertex_element.xy = (xe_vertex_element.xx >>\n", <<>>),
           Line(d, "    uint2(0u, 16u)) & 65535u;\n", <<>>)>>
         \o (IF attributes.is_signed
            THEN <<Line(d, "xe_pv.xy = float2(int2(xe_vertex_element.xy << 16u) >> 16);\n", <<>>)>>
            ELSE <<Line(d, "xe_pv.xy = float2(xe_vertex_element.xy);\n", <<>>)>>)
         \o (IF ~attributes.is_integer
            THEN (IF attributes.is_signed
                    THEN <<Line(d, "xe_pv.xy = max(xe_pv.xy * (1.0 / 32767.0), (-1.0).xx);\n", <<>>)>>
                    ELSE <<Line(d, "xe_pv.xy *= 1.0 / 65535.0;\n", <<>>)>>)
            ELSE <<>>)
         \o <<Line(d, "xe_pv.zw = float2(0.0, 1.0);\n", <<>>)>>
    [] attributes.data_format = "k_16_16_16_16" ->
         <<Line(d, "xe_vertex_element = (xe_vertex_element.xxxx >>\n", <<>>),
           Line(d, "    uint4(0u, 16u, 0u, 16u)) & 65535u;\n", <<>>)>>
         \o (IF attributes.is_signed
            THEN <<Line(d, "xe_pv = float4(int4(xe_vertex_element << 16u) >> 16);\n", <<>>)>>
            ELSE <<Line(d, "xe_pv = float4(xe_vertex_element);\n", <<>>)>>)
         \o (IF ~attributes.is_integer
            THEN (IF attributes.is_signed
                    THEN <<Line(d, "xe_pv = max(xe_pv * (1.0 / 32767.0), (-1.0).xxxx);\n", <<>>)>>
                    ELSE <<Line(d, "xe_pv *= 1.0 / 65535.0;\n", <<>>)>>)
            ELSE <<>>)
    [] attributes.data_format = "k_16_16_FLOAT" ->
         <<Line(d, "xe_vertex_element.xy = (xe_vertex_element.xx >>\n", <<>>),
           Line(d, "    uint2(0u, 16u)) & 65535u;\n", <<>>),
           Line(d, "xe_pv.xy = f16tof32(xe_vertex_element.xy);\n", <<>>),
           Line(d, "xe_pv.zw = float2(0.0, 1.0);\n", <<>>)>>
    [] attributes.data_format = "k_16_16_16_16_FLOAT" ->
         <<Line(d, "xe_vertex_element = (xe_vertex_element.xxxx >>\n", <<>>),
           Line(d, "    uint4(0u, 16u, 0u, 16u)) & 65535u;\n", <<>>),
           Line(d, "xe_pv = f16tof32(xe_vertex_element);\n", <<>>)>>
    [] attributes.data_format = "k_32" ->
         (IF attributes.is_signed
            THEN <<Line(d, "xe_pv.x = float(int(xe_vertex_element.x));\n", <<>>)>>
            ELSE <<Line(d, "xe_pv.x = float(xe_vertex_element.x);\n", <<>>)>>)
         \o (IF ~attributes.is_integer
            THEN (IF attributes.is_signed
                    THEN <<Line(d, "xe_pv.x *= asfloat(0x30000000u);\n", <<>>)>>
                    ELSE <<Line(d, "xe_pv.x *= asfloat(0x2F800000u);\n", <<>>)>>)
            ELSE <<>>)
         \o <<Line(d, "xe_pv.yzw = float3(0.0, 0.0, 1.0);\n", <<>>)>>
    [] attributes.data_format = "k_32_32" ->
         (IF attributes.is_signed
            THEN <<Line(d, "xe_pv.xy = float2(int2(xe_vertex_element.xy));\n", <<>>)>>
            ELSE <<Line(d, "xe_pv.xy = float2(xe_vertex_element.xy);\n", <<>>)>>)
         \o (IF ~attributes.is_integer
            THEN (IF attributes.is_signed
                    THEN <<Line(d, "xe_pv.xy *= asfloat(0x30000000u);\n", <<>>)>>
                    ELSE <<Line(d, "xe_pv.xy *= asfloat(0x2F800000u);\n", <<>>)>>)
            ELSE <<>>)
         \o <<Line(d, "xe_pv.zw = float2(0.0, 1.0);\n", <<>>)>>
    [] attributes.data_format = "k_32_32_32_32" ->
         (IF attributes.is_signed
            THEN <<Line(d, "xe_pv = float4(int4(xe_vertex_element));\n", <<>>)>>
            ELSE <<Line(d, "xe_pv = float4(xe_vertex_element);\n", <<>>)>>)
         \o (IF ~attributes.is_integer
            THEN (IF attributes.is_signed
                    THEN <<Line(d, "xe_pv *= asfloat(0x30000000u);\n", <<>>)>>
                    ELSE <<Line(d, "xe_pv *= asfloat(0x2F800000u);\n", <<>>)>>)
            ELSE <<>>)
    [] attributes.data_format = "k_32_FLOAT" ->
         <<Line(d, "xe_pv.x = asfloat(xe_vertex_element.x);\n", <<>>),
           Line(d, "xe_pv.yzw = float3(0.0, 0.0, 1.0);\n", <<>>)>>
    [] attributes.data_format = "k_32_32_FLOAT" ->
         <<Line(d, "xe_pv.xy = asfloat(xe_vertex_element.xy);\n", <<>>),
           Line(d, "xe_pv.zw = float2(0.0, 1.0);\n", <<>>)>>
    [] attributes.data_format = "k_32_32_32_32_FLOAT" ->
         <<Line(d, "xe_pv = asfloat(xe_vertex_element);\n", <<>>)>>
    [] attributes.data_format = "k_32_32_32_FLOAT" ->
         <<Line(d, "xe_pv.xyz = asfloat(xe_vertex_element.xyz);\n", <<>>),
           Line(d, "xe_pv.w = 1.0;\n", <<>>)>>
    [] OTHER -> <<>>


VertexLoadText(d, instr) ==
  LET fmt == instr.attributes.data_format
      fetch_constant == instr.operands[2].storage_index
  IN <<Line(d,
            CASE fmt \in {"k_16_16_16_16", "k_16_16_16_16_FLOAT", "k_32_32",
                          "k_32_32_FLOAT"} ->
                   "xe_vertex_element.xy = XeByteSwap(xe_shared_memory.Load2(\n"
              [] fmt = "k_32_32_32_FLOAT" ->
                   "xe_vertex_element.xyz = XeByteSwap(xe_shared_memory.Load3(\n"
              [] fmt \in {"k_32_32_32_32", "k_32_32_32_32_FLOAT"} ->
                   "xe_vertex_element = XeByteSwap(xe_shared_memory.Load4(\n"
              [] OTHER ->
                   "xe_vertex_element.x = XeByteSwap(xe_shared_memory.Load(\n",
            <<>>),
       Line(d, "    ((xe_vertex_fetch[%uu].x << 2u) & 0x1FFFFFFCu)", <<fetch_constant>>)>>
     \o (IF instr.attributes.stride # 0
           THEN <<Part(" + uint(xe_src0.x) * %uu", <<instr.attributes.stride * 4>>)>>
           ELSE <<>>)
     \o (IF instr.attributes.offset # 0
           THEN <<Part(" + %uu", <<instr.attributes.offset * 4>>)>>
           ELSE <<>>)
     \o <<Part("),\n", <<>>),
          Line(d, "    xe_vertex_fetch[%u].y);\n", <<fetch_constant>>)>>

\* FALSE when ProcessVertexFetchInstruction returns at its assert (lines 799-804)
VertexFetchWellFormed(instr) ==
  /\ instr.operand_count >= 2
  /\ instr.operands[2].storage_source = "kVertexFetchConstant"

ProcessVertexFetchInstructionText(d, instr, exec_pred, exec_pred_cond) ==
  LET conditional_emitted ==
        BeginPredicatedInstruction(instr.is_predicated, instr.predicate_condition,
                                   exec_pred, exec_pred_cond)
      di == IF conditional_emitted THEN d + 2 ELSE d
  IN <<Line(d, "// ", <<>>), Disassemble>>
     \o (IF ~VertexFetchWellFormed(instr)
           THEN <<>>  \* assert_always(); return;
           ELSE BeginPredicatedInstructionText(d, conditional_emitted,
                                               instr.predicate_condition)
                \o EmitLoadOperandText(di, 0, instr.operands[1])
                \o VertexLoadText(di, instr)
                \o VertexFormatText(di, instr.attributes)
                \o EmitStoreResultText(di, instr.result, FALSE)
                \o EndPredicatedInstructionText(d, conditional_emitted))

ProcessTextureFetchInstructionText(d, instr, exec_pred, exec_pred_cond) ==
  LET conditional_emitted ==
        BeginPredicatedInstruction(instr.is_predicated, instr.predicate_condition,
                                   exec_pred, exec_pred_cond)
      di == IF conditional_emitted THEN d + 2 ELSE d
  IN <<Line(d, "// ", <<>>), Disassemble>>
     \o BeginPredicatedInstructionText(d, conditional_emitted, instr.predicate_condition)
     \o <<Line(di, "xe_pv = (1.0).xxxx;\n", <<>>)>>
     \o EmitStoreResultText(di, instr.result, FALSE)
     \o EndPredicatedInstructionText(d, conditional_emitted)

-----------------------------------------------------------------------------
(* Module assembly *)

Min(a, b) == IF a < b THEN a ELSE b

\* The text CompleteTranslation returns.  The long literal blocks that no
\* translator state selects are named by their first and last lines.
CompleteTranslationText(inner, wrote_pc, cube_used, writes_depth, is_vertex_shader, register_count) ==
  LET Interpolator(i) == <<Part("  xe_output.interpolators[%u] = (0.0).xxxx;\n", <<i>>)>>
      CopyInterpolant(i) == <<Part("  xe_r[%u] = xe_input.interpolators[%u];\n", <<i, i>>)>>
  IN <<Part("#pragma warning(disable : 3557)\n\n#define XE_FLT_MAX 3.402823466e+38\n\n",
            <<>>)>>
     \o (IF cube_used
           THEN <<Part("float4 XeCubeTo2D(float3 xe_cube_3d) { ... }\n\nfloat3 XeCubeTo3D(float3 xe_cube_2d) { ... }\n\n",
                       <<>>)>>
           ELSE <<>>)
     \o <<Part("cbuffer xe_system_constants : register(b0) { ... };\n\ncbuffer xe_loop_bool_constants : register(b1) {\n  uint xe_bool_constants[8];\n  uint xe_loop_constants[32];\n};\n\nstruct XeFloatConstantPage {\n  float4 c[32];\n};\nConstantBuffer<XeFloatConstantPage> xe_float_constants[8] : register(b2);\n\n",
               <<>>)>>
     \o (IF is_vertex_shader
           THEN <<Part("cbuffer xe_vertex_fetch_constants : register(b10) {\n  uint2 xe_vertex_fetch[96];\n};\n ... XeVertexShaderOutput main(uint xe_vertex_index_be : SV_VertexID) {\n  float4 xe_r[%u];\n ... uint4 xe_vertex_element;\n ... xe_output.point_size = -1.0;\n",
                       <<kMaxInterpolators, register_count>>)>>
                \o ConcatFor(0, kMaxInterpolators - 1, [i \in (0)..(kMaxInterpolators - 1) |-> Interpolator(i)])
           ELSE <<Part(IF writes_depth
                         THEN "struct XePixelShaderInput { ... };\n\nstruct XePixelShaderOutput {\n  float4 colors[4] : SV_Target;\n  float depth : SV_Depth;\n};\n\nXePixelShaderOutput main(XePixelShaderInput xe_input) {\n  float4 xe_r[%u];\n ... xe_output.colors[3] = (0.0).xxxx;\n"
                         ELSE "struct XePixelShaderInput { ... };\n\nstruct XePixelShaderOutput {\n  float4 colors[4] : SV_Target;\n};\n\nXePixelShaderOutput main(XePixelShaderInput xe_input) {\n  float4 xe_r[%u];\n ... xe_output.colors[3] = (0.0).xxxx;\n",
                       <<kMaxInterpolators, register_count>>)>>
                \o (IF writes_depth
                      THEN <<Part("  xe_output.depth = xe_input.position.z;\n", <<>>)>>
                      ELSE <<>>)
                \o ConcatFor(0, Min(register_count, kMaxInterpolators) - 1,
                             [i \in 0..(Min(register_count, kMaxInterpolators) - 1) |->
                                CopyInterpolant(i)]))
     \o <<Part("  uint xe_src_index;\n", <<>>),
          Part("  float4 xe_src0, xe_src1, xe_src2;\n", <<>>),
          Part("  float4 xe_pv = float4(0.0, 0.0, 0.0, 0.0);\n", <<>>),
          Part("  float xe_ps = 0.0;\n", <<>>),
          Part("  bool xe_p0 = false;\n", <<>>),
          Part("  int xe_a0 = 0;\n", <<>>),
          Part("  int4 xe_aL = int4(0, 0, 0, 0);\n", <<>>),
          Part("  uint4 xe_loop_count = uint4(0u, 0u, 0u, 0u);\n", <<>>),
          Part("  uint xe_pc = 0u;\n", <<>>),
          Part("\n", <<>>),
          Part("  do {\n", <<>>),
          Part("    switch (xe_pc) {\n", <<>>)>>
     \o inner
     \o (IF ~wrote_pc
           THEN <<Part("      xe_pc = 0xFFFFu;\n      break;\n", <<>>)>>
           ELSE <<>>)
     \o <<Part("      default:\n      xe_pc = 0xFFFFu;\n      break;\n    }\n  } while (xe_pc != 0xFFFFu);\n",
               <<>>),
          Part("  return xe_output;\n}\n", <<>>)>>

-----------------------------------------------------------------------------
(* Instruction records *)

\* A control flow instruction; the fields its kind does not have hold defaults.
CfInstr(kind, dword_index) ==
  [kind |-> kind, dword_index |-> dword_index, type |-> "kUnconditional",
   condition |-> FALSE, bool_constant_index |-> 0, is_end |-> FALSE,
   target_address |-> 0, loop_constant_index |-> 0, is_repeat |-> FALSE,
   loop_skip_address |-> 0, loop_body_address |-> 0,
   is_predicated_break |-> FALSE, predicate_condition |-> FALSE]

NoCf == CfInstr("none", 0)

Operand(storage_source, storage_index, storage_addressing_mode, is_negated, is_absolute_value, component_count, components) ==
  [storage_source |-> storage_source, storage_index |-> storage_index,
   storage_addressing_mode |-> storage_addressing_mode, is_negated |-> is_negated,
   is_absolute_value |-> is_absolute_value, component_count |-> component_count,
   components |-> components]

Result(storage_target, storage_index, storage_addressing_mode, is_clamped, write_mask, components) ==
  [storage_target |-> storage_target, storage_index |-> storage_index,
   storage_addressing_mode |-> storage_addressing_mode, is_clamped |-> is_clamped,
   write_mask |-> write_mask, components |-> components]

StandardSwizzle == <<"kX", "kY", "kZ", "kW">>
Register(i) == Operand("kRegister", i, "kStatic", FALSE, FALSE, 4, StandardSwizzle)
WriteRegister(i) ==
  Result("kRegister", i, "kStatic", FALSE, <<TRUE, TRUE, TRUE, TRUE>>, StandardSwizzle)
NoAttributes ==
  [data_format |-> "k_8_8_8_8", is_signed |-> FALSE, is_integer |-> FALSE,
   stride |-> 0, offset |-> 0]

\* An ALU or fetch instruction; kind is "alu", "vfetch" or "tfetch".
Instr(kind, type, vector_opcode, scalar_opcode, is_predicated, predicate_condition, operands, result, attributes) ==
  [kind |-> kind, type |-> type, vector_opcode |-> vector_opcode,
   scalar_opcode |-> scalar_opcode, is_predicated |-> is_predicated,
   predicate_condition |-> predicate_condition, operand_count |-> Len(operands),
   operands |-> operands, result |-> result, attributes |-> attributes]

NoInstr ==
  Instr("none", "kNop", "kAdd", "kAdds", FALSE, FALSE, <<>>, WriteRegister(0),
        NoAttributes)

-----------------------------------------------------------------------------
(* The translator as a state machine.  ShaderTranslator::Translate drives it: *)
(* Reset, StartTranslation, then for each control flow instruction in address *)
(* order ProcessLabel (if the address is a jump target),                      *)
(* ProcessControlFlowInstructionBegin, the instruction's handler (an exec     *)
(* block: ProcessExecInstructionBegin, its ALU and fetch instructions,        *)
(* ProcessExecInstructionEnd), ProcessControlFlowInstructionEnd; then         *)
(* CompleteTranslation.                                                       *)

Call(op, emitted, ret) == [op |-> op, emitted |-> emitted, ret |-> ret]
NoCall == Call("none", <<>>, -1)
NoInput == [op |-> "none"]
NoRun == [op |-> "none"]

\* the translator after its constructor
Constructed ==
  /\ source_inner_ = <<>>
  /\ depth_ = 0
  /\ cf_wrote_pc_ = FALSE
  /\ cf_exec_pred_ = FALSE
  /\ cf_exec_pred_cond_ = FALSE
  /\ writes_depth_ = FALSE
  /\ srv_bindings_ = <<>>
  /\ sampler_count_ = 0
  /\ sampler_fetch_constants_ = <<>>
  /\ cube_used_ = FALSE
  /\ errors_ = <<>>
  /\ phase = "constructed"
  /\ pos = "label"
  /\ cf_index = 0
  /\ labelled = FALSE
  /\ mark = 0
  /\ cur = NoCf
  /\ alu = NoInstr
  /\ ninstr = 0
  /\ source = <<>>
  /\ call = NoCall
  /\ history = <<>>

Init ==
  /\ Constructed
  /\ input = NoInput
  /\ run = NoRun

\* a Reset that forgets cube_used_
Reset_KeepsCubeUsed ==
  /\ phase \in {"constructed", "done"}
  /\ errors_' = <<>>  \* ShaderTranslator::Reset
  /\ source_inner_' = <<>>
  /\ depth_' = 0
  /\ cf_wrote_pc_' = FALSE
  /\ cf_exec_pred_' = FALSE
  /\ cf_exec_pred_cond_' = FALSE
  /\ writes_depth_' = FALSE
  /\ srv_bindings_' = <<>>
  /\ sampler_count_' = 0
  /\ phase' = "reset"
  /\ pos' = "label"
  /\ cf_index' = 0
  /\ labelled' = FALSE
  /\ mark' = 0
  /\ cur' = NoCf
  /\ alu' = NoInstr
  /\ ninstr' = 0
  /\ source' = <<>>
  /\ history' = <<>>
  /\ call' = Call("Reset", <<>>, -1)
  /\ UNCHANGED <<sampler_fetch_constants_, cube_used_, input,
                 run>>

Reset ==
  /\ phase \in {"constructed", "done"}
  /\ errors_' = <<>>  \* ShaderTranslator::Reset
  /\ source_inner_' = <<>>
  /\ depth_' = 0
  /\ cf_wrote_pc_' = FALSE
  /\ cf_exec_pred_' = FALSE
  /\ cf_exec_pred_cond_' = FALSE
  /\ writes_depth_' = FALSE
  /\ srv_bindings_' = <<>>
  /\ sampler_count_' = 0
  /\ cube_used_' = FALSE
  /\ phase' = "reset"
  /\ pos' = "label"
  /\ cf_index' = 0
  /\ labelled' = FALSE
  /\ mark' = 0
  /\ cur' = NoCf
  /\ alu' = NoInstr
  /\ ninstr' = 0
  /\ source' = <<>>
  /\ history' = <<>>
  /\ call' = Call("Reset", <<>>, -1)
  /\ UNCHANGED <<sampler_fetch_constants_, input,
                 run>>

\* Indent() three times, then the first case label
StartTranslation ==
  /\ phase = "reset"
  /\ depth_' = depth_ + 2 + 2 + 2
  /\ source_inner_' = source_inner_ \o StartTranslationText(depth_')
  /\ phase' = "translating"
  /\ call' = Call("StartTranslation", StartTranslationText(depth_'), -1)
  /\ UNCHANGED <<cf_wrote_pc_, cf_exec_pred_, cf_exec_pred_cond_, writes_depth_,
                 srv_bindings_, sampler_count_, sampler_fetch_constants_, cube_used_,
                 errors_, pos, cf_index, labelled, mark, cur, alu, ninstr, source,
                 history, input,
                 run>>

\* what every instruction handler leaves alone
HandlerFrame ==
  UNCHANGED <<srv_bindings_, sampler_count_, sampler_fetch_constants_, phase,
              cf_index, labelled, mark, source, history, input,
                 run>>

ProcessLabel ==
  /\ phase = "translating" /\ pos = "label" /\ ninstr < MaxInstr
  /\ LET text == ProcessLabelText(depth_, cf_index, cf_wrote_pc_)
     IN /\ source_inner_' = source_inner_ \o text
        /\ call' = Call("ProcessLabel", text, -1)
  /\ pos' = "begin"
  /\ labelled' = TRUE
  /\ UNCHANGED <<depth_, cf_wrote_pc_, cf_exec_pred_, cf_exec_pred_cond_,
                 writes_depth_, srv_bindings_, sampler_count_,
                 sampler_fetch_constants_, cube_used_, errors_, phase, cf_index, mark,
                 cur, alu, ninstr, source, history, input,
                 run>>

ProcessControlFlowInstructionBegin ==
  /\ phase = "translating" /\ pos \in {"label", "begin"} /\ ninstr < MaxInstr
  /\ cf_wrote_pc_' = FALSE
  /\ pos' = "instr"
  /\ mark' = Len(source_inner_)
  /\ call' = Call("ProcessControlFlowInstructionBegin", <<>>, -1)
  /\ UNCHANGED <<source_inner_, depth_, cf_exec_pred_, cf_exec_pred_cond_,
                 writes_depth_, srv_bindings_, sampler_count_,
                 sampler_fetch_constants_, cube_used_, errors_, phase, cf_index,
                 labelled, cur, alu, ninstr, source, history, input,
                 run>>

ProcessControlFlowInstructionEnd ==
  /\ phase = "translating" /\ pos = "end"
  /\ LET text == ProcessControlFlowInstructionEndText(depth_, cf_index, cf_wrote_pc_)
     IN /\ source_inner_' = source_inner_ \o text
        /\ call' = Call("ProcessControlFlowInstructionEnd", text, -1)
  /\ history' = Append(history, [instr |-> cur, labelled |-> labelled,
                                 wrote_pc |-> cf_wrote_pc_, from |-> mark,
                                 to |-> Len(source_inner_)])
  /\ cf_index' = cf_index + 1
  /\ labelled' = FALSE
  /\ pos' = "label"
  /\ UNCHANGED <<depth_, cf_wrote_pc_, cf_exec_pred_, cf_exec_pred_cond_,
                 writes_depth_, srv_bindings_, sampler_count_,
                 sampler_fetch_constants_, cube_used_, errors_, phase, mark, cur, alu,
                 ninstr, source, input,
                 run>>

\* a control flow handler that only appends text
CfHandler(instr, op, text, wrote_pc) ==
  /\ phase = "translating" /\ pos = "instr"
  /\ source_inner_' = source_inner_ \o text
  /\ cf_wrote_pc_' = wrote_pc
  /\ cur' = instr
  /\ ninstr' = ninstr + 1
  /\ pos' = "end"
  /\ call' = Call(op, text, -1)
  /\ HandlerFrame
  /\ UNCHANGED <<depth_, cf_exec_pred_, cf_exec_pred_cond_, writes_depth_,
                 cube_used_, alu>>

ProcessControlFlowNopInstruction(instr) ==
  /\ CfHandler(instr, "ProcessControlFlowNopInstruction",
               ProcessControlFlowNopInstructionText(depth_), cf_wrote_pc_)
  /\ UNCHANGED errors_

ProcessExecInstructionBegin(instr) ==
  /\ phase = "translating" /\ pos = "instr"
  /\ LET text == ProcessExecInstructionBeginText(depth_, instr)
     IN /\ source_inner_' = source_inner_ \o text
        /\ call' = Call("ProcessExecInstructionBegin", text, -1)
  /\ cf_exec_pred_' = (instr.type = "kPredicated")
  /\ cf_exec_pred_cond_' =
       IF instr.type = "kPredicated" THEN instr.condition ELSE cf_exec_pred_cond_
  /\ depth_' = depth_ + 2
  /\ cur' = instr
  /\ ninstr' = ninstr + 1
  /\ pos' = "exec"
  /\ HandlerFrame
  /\ UNCHANGED <<cf_wrote_pc_, writes_depth_, cube_used_, errors_, alu>>

ProcessExecInstructionEnd ==
  /\ phase = "translating" /\ pos = "exec"
  /\ LET text == ProcessExecInstructionEndText(depth_, cur)
     IN /\ source_inner_' = source_inner_ \o text
        /\ call' = Call("ProcessExecInstructionEnd", text, -1)
  /\ cf_wrote_pc_' = IF cur.is_end THEN TRUE ELSE cf_wrote_pc_
  /\ depth_' = depth_ - 2
  /\ pos' = "end"
  /\ HandlerFrame
  /\ UNCHANGED <<cf_exec_pred_, cf_exec_pred_cond_, writes_depth_, cube_used_,
                 errors_, cur, alu, ninstr>>

ProcessLoopStartInstruction(instr) ==
  /\ CfHandler(instr, "ProcessLoopStartInstruction",
               ProcessLoopStartInstructionText(depth_, instr), TRUE)
  /\ UNCHANGED errors_

ProcessLoopEndInstruction(instr) ==
  /\ CfHandler(instr, "ProcessLoopEndInstruction",
               ProcessLoopEndInstructionText(depth_, instr), TRUE)
  /\ UNCHANGED errors_

ProcessCallInstruction(instr) ==
  /\ CfHandler(instr, "ProcessCallInstruction", ProcessCallInstructionText(depth_),
               cf_wrote_pc_)
  /\ errors_' = BaseEmitUnimplementedTranslationError(errors_)

ProcessReturnInstruction(instr) ==
  /\ CfHandler(instr, "ProcessReturnInstruction", ProcessReturnInstructionText(depth_),
               cf_wrote_pc_)
  /\ errors_' = BaseEmitUnimplementedTranslationError(errors_)

ProcessJumpInstruction(instr) ==
  /\ CfHandler(instr, "ProcessJumpInstruction",
               ProcessJumpInstructionText(depth_, instr), cf_wrote_pc_)
  /\ UNCHANGED errors_

ProcessAllocInstruction(instr) ==
  /\ CfHandler(instr, "ProcessAllocInstruction", ProcessAllocInstructionText(depth_),
               cf_wrote_pc_)
  /\ UNCHANGED errors_

\* an ALU or fetch handler inside an exec block
ExecHandler(instr, op, text) ==
  /\ phase = "translating" /\ pos = "exec" /\ ninstr < MaxInstr
  /\ source_inner_' = source_inner_ \o text
  /\ alu' = instr
  /\ ninstr' = ninstr + 1
  /\ call' = Call(op, text, -1)
  /\ HandlerFrame
  /\ UNCHANGED <<depth_, cf_wrote_pc_, cf_exec_pred_cond_, errors_, pos, cur>>

ProcessAluInstruction(instr) ==
  /\ ExecHandler(instr, "ProcessAluInstruction",
                 ProcessAluInstructionText(depth_, instr, cf_exec_pred_,
                                           cf_exec_pred_cond_))
  /\ cf_exec_pred_' = AluExecPred(instr, cf_exec_pred_)
  /\ cube_used_' = AluCubeUsed(instr, cube_used_)
  /\ writes_depth_' =
       (writes_depth_ \/ (instr.type # "kNop" /\ StoreResultWritesDepth(instr.result)))

ProcessVertexFetchInstruction(instr) ==
  /\ ExecHandler(instr, "ProcessVertexFetchInstruction",
                 ProcessVertexFetchInstructionText(depth_, instr, cf_exec_pred_,
                                                   cf_exec_pred_cond_))
  /\ writes_depth_' =
       (writes_depth_
          \/ (VertexFetchWellFormed(instr) /\ StoreResultWritesDepth(instr.result)))
  /\ UNCHANGED <<cf_exec_pred_, cube_used_>>

ProcessTextureFetchInstruction(instr) ==
  /\ ExecHandler(instr, "ProcessTextureFetchInstruction",
                 ProcessTextureFetchInstructionText(depth_, instr, cf_exec_pred_,
                                                    cf_exec_pred_cond_))
  /\ writes_depth_' = (writes_depth_ \/ StoreResultWritesDepth(instr.result))
  /\ UNCHANGED <<cf_exec_pred_, cube_used_>>

CompleteTranslation(is_vertex_shader, register_count) ==
  /\ phase = "translating" /\ pos = "label"
  /\ source' = CompleteTranslationText(source_inner_, cf_wrote_pc_, cube_used_,
                                       writes_depth_, is_vertex_shader, register_count)
  /\ phase' = "done"
  /\ call' = Call("CompleteTranslation", <<>>, -1)
  /\ UNCHANGED <<translator, errors_, pos, cf_index, labelled, mark, cur, alu,
                 ninstr, history, input,
                 run>>

-----------------------------------------------------------------------------
(* The instruction streams translated under Spec *)

ExecInstrs(d) ==
  {[CfInstr("exec", d) EXCEPT !.type = t[1], !.condition = t[2],
                              !.bool_constant_index = t[3], !.is_end = e] :
     t \in {<<"kUnconditional", FALSE, 0>>, <<"kConditional", TRUE, 40>>,
            <<"kPredicated", TRUE, 0>>, <<"kPredicated", FALSE, 0>>},
     e \in BOOLEAN}

JumpInstrs(d) ==
  {[CfInstr("jump", d) EXCEPT !.type = t[1], !.condition = t[2],
                              !.bool_constant_index = t[3], !.target_address = t[4]] :
     t \in {<<"kUnconditional", FALSE, 0, 3>>, <<"kConditional", FALSE, 40, 3>>,
            <<"kPredicated", TRUE, 0, 0>>}}

LoopStartInstrs(d) ==
  {[CfInstr("loop_start", d) EXCEPT !.loop_constant_index = 1, !.is_repeat = r,
                                    !.loop_skip_address = 3] : r \in BOOLEAN}

LoopEndInstrs(d) ==
  {[CfInstr("loop_end", d) EXCEPT !.loop_constant_index = 1, !.loop_body_address = 1,
                                  !.is_predicated_break = b,
                                  !.predicate_condition = b] : b \in BOOLEAN}

AluInstrs ==
  {Instr("alu", "kNop", "kAdd", "kAdds", FALSE, FALSE, <<>>, WriteRegister(0),
         NoAttributes),
   Instr("alu", "kVector", "kAdd", "kAdds", FALSE, FALSE, <<Register(0), Register(1)>>,
         WriteRegister(0), NoAttributes),
   Instr("alu", "kVector", "kSetpEqPush", "kAdds", TRUE, TRUE,
         <<Register(0), Register(1)>>, WriteRegister(1), NoAttributes),
   Instr("alu", "kVector", "kCube", "kAdds", TRUE, FALSE, <<Register(0)>>,
         WriteRegister(0), NoAttributes),
   Instr("alu", "kScalar", "kAdd", "kSetpClr", FALSE, FALSE, <<Register(0)>>,
         Result("kDepth", 0, "kStatic", TRUE, <<TRUE, FALSE, FALSE, FALSE>>,
                StandardSwizzle),
         NoAttributes)}

VertexFetchInstrs ==
  {Instr("vfetch", "kNop", "kAdd", "kAdds", FALSE, FALSE,
         <<Operand("kRegister", 0, "kStatic", FALSE, FALSE, 1, <<"kX">>),
           Operand("kVertexFetchConstant", 95, "kStatic", FALSE, FALSE, 4,
                   StandardSwizzle)>>,
         WriteRegister(1),
         [data_format |-> "k_8_8_8_8", is_signed |-> TRUE, is_integer |-> FALSE,
          stride |-> 4, offset |-> 0]),
   Instr("vfetch", "kNop", "kAdd", "kAdds", FALSE, FALSE,
         <<Operand("kRegister", 0, "kStatic", FALSE, FALSE, 1, <<"kX">>)>>,
         WriteRegister(1), NoAttributes)}

TextureFetchInstrs ==
  {Instr("tfetch", "kNop", "kAdd", "kAdds", TRUE, TRUE, <<Register(0)>>,
         WriteRegister(0), NoAttributes)}

Next ==
  \/ Reset
  \/ StartTranslation
  \/ ProcessLabel
  \/ ProcessControlFlowInstructionBegin
  \/ ProcessControlFlowNopInstruction(CfInstr("cnop", cf_index))
  \/ \E instr \in ExecInstrs(cf_index) : ProcessExecInstructionBegin(instr)
  \/ \E instr \in AluInstrs : ProcessAluInstruction(instr)
  \/ \E instr \in VertexFetchInstrs : ProcessVertexFetchInstruction(instr)
  \/ \E instr \in TextureFetchInstrs : ProcessTextureFetchInstruction(instr)
  \/ ProcessExecInstructionEnd
  \/ \E instr \in LoopStartInstrs(cf_index) : ProcessLoopStartInstruction(instr)
  \/ \E instr \in LoopEndInstrs(cf_index) : ProcessLoopEndInstruction(instr)
  \/ ProcessCallInstruction(CfInstr("call", cf_index))
  \/ ProcessReturnInstruction(CfInstr("return", cf_index))
  \/ \E instr \in JumpInstrs(cf_index) : ProcessJumpInstruction(instr)
  \/ ProcessAllocInstruction(CfInstr("alloc", cf_index))
  \/ ProcessControlFlowInstructionEnd
  \/ \E is_vertex_shader \in BOOLEAN : CompleteTranslation(is_vertex_shader, 2)

Spec == Init /\ [][Next]_vars

-----------------------------------------------------------------------------
(* Reading the emitted text *)

\* the format strings of the statements that assign the counter xe_pc
PcAssignFormats ==
  {"xe_pc = %uu;\n", "xe_pc = 0xFFFFu;\n", "xe_pc = %uu;  // L%u\n",
   "  xe_pc = %uu;  // Fallthrough to L%u\n", "  xe_pc = %uu;  // Skip loop to L%u\n",
   "  xe_pc = %uu;  // Fallthrough to loop body L%u\n",
   "xe_pc = %uu;  // Exit loop to L%u\n", "xe_pc = %uu;  // Loop back to body L%u\n"}

\* the pieces that are (part of) a comment line
CommentFormats ==
  {"// ", "<disassembly>\n", "// cnop\n", "// Falling through to L%u\n",
   "// UNIMPLEMENTED TRANSLATION\n"}

AssignsCounter(text) == \E i \in DOMAIN text : text[i].f \in PcAssignFormats

\* how many pieces of text have format f and arguments a
Count(text, f, a) == Cardinality({i \in DOMAIN text : text[i].f = f /\ text[i].a = a})

\* the fallthrough comments and fallthrough assignments naming address n
FallthroughComments(n) == Count(source_inner_, "// Falling through to L%u\n", <<n>>)
FallthroughAssignments(n) == Count(source_inner_, "xe_pc = %uu;\n", <<n>>)

\* the text the k-th control flow instruction's own handlers emitted
CodeOf(k) == SubSeq(source_inner_, history[k].from + 1, history[k].to)

-----------------------------------------------------------------------------
(* Claims checked under Spec *)

\* C2 (as stated): a control instruction whose emitted code assigns xe_pc (jump
\* of any kind, loop start, loop end, exec flagged end-of-program) gets no
\* fallthrough comment and no fallthrough assignment; one whose code does not
\* assign it gets exactly one fallthrough assignment of xe_pc to
\* dword_index + 1, whether or not the next address carries a label (checked
\* for the instructions that another instruction follows).
C2_AsStated ==
  \A k \in DOMAIN history :
    LET next_address == history[k].instr.dword_index + 1
    IN /\ AssignsCounter(CodeOf(k)) =>
            /\ FallthroughComments(next_address) = 0
            /\ FallthroughAssignments(next_address) = 0
       /\ (~AssignsCounter(CodeOf(k)) /\ k < Len(history)) =>
            FallthroughAssignments(next_address) = 1

\* the instructions whose handler sets cf_wrote_pc_
SetsWrotePc(instr) ==
  instr.kind \in {"loop_start", "loop_end"} \/ (instr.kind = "exec" /\ instr.is_end)

\* C2 (amended): the fallthrough is suppressed exactly for the instructions
\* whose handler sets cf_wrote_pc_ (loop start, loop end, exec flagged
\* end-of-program): they get no fallthrough comment and no fallthrough
\* assignment.  Every other control instruction, jumps included although
\* their code assigns xe_pc, gets exactly one fallthrough comment naming
\* dword_index + 1, and one fallthrough assignment of xe_pc to dword_index + 1
\* when ProcessLabel runs for the next address, none when it does not.
C2_Fallthrough ==
  \A k \in DOMAIN history :
    LET h == history[k]
        next_address == h.instr.dword_index + 1
    IN /\ h.wrote_pc = SetsWrotePc(h.instr)
       /\ h.instr.kind = "jump" => AssignsCounter(CodeOf(k))
       /\ FallthroughComments(next_address) = IF h.wrote_pc THEN 0 ELSE 1
       /\ k < Len(history) =>
            FallthroughAssignments(next_address) =
              IF ~h.wrote_pc /\ history[k + 1].labelled THEN 1 ELSE 0

\* C2 witness: a jump followed by an instruction at a labelled address, with
\* its fallthrough comment and fallthrough assignment
C2_Witness ==
  /\ Len(history) = 2
  /\ history[1].instr.kind = "jump"
  /\ history[2].labelled
  /\ FallthroughComments(1) = 1
  /\ FallthroughAssignments(1) = 1

\* C4: the text of the one-exec program "exec unconditional, end of program
\* { vector add r0 = r0 + r1 }": one case label (case 0), the add and the write
\* of register 0, the halt assignment before the block's closing brace, and no
\* forced-halt epilogue added by CompleteTranslation.
C4_AddInstr ==
  Instr("alu", "kVector", "kAdd", "kAdds", FALSE, FALSE, <<Register(0), Register(1)>>,
        WriteRegister(0), NoAttributes)

C4_Scenario ==
  /\ phase = "done"
  /\ Len(history) = 1
  /\ history[1].instr = [CfInstr("exec", 0) EXCEPT !.is_end = TRUE]
  /\ ~history[1].labelled
  /\ alu = C4_AddInstr
  /\ ninstr = 2

C4_Body ==
  <<Line(6, "case 0u:\n", <<>>),
    Line(6, "// ", <<>>), Disassemble,
    Line(6, "{\n", <<>>),
    Line(8, "// ", <<>>), Disassemble,
    Line(8, "xe_src%u = ", <<0>>), Part("(", <<>>), Part("xe_r[%u]", <<0>>),
    Part(")", <<>>), Part(";\n", <<>>),
    Line(8, "xe_src%u = ", <<1>>), Part("(", <<>>), Part("xe_r[%u]", <<1>>),
    Part(")", <<>>), Part(";\n", <<>>),
    Line(8, "xe_pv = xe_src0 + xe_src1;\n", <<>>),
    Line(8, "xe_r", <<>>), Part("[%u]", <<0>>), Part(".", <<>>),
    Part("x", <<>>), Part("y", <<>>), Part("z", <<>>), Part("w", <<>>),
    Part(" = ", <<>>), Part("xe_pv.", <<>>),
    Part("x", <<>>), Part("y", <<>>), Part("z", <<>>), Part("w", <<>>),
    Part(";\n", <<>>),
    Line(8, "xe_pc = 0xFFFFu;\n", <<>>),
    Line(8, "break;\n", <<>>),
    Line(6, "}\n", <<>>)>>

CaseLabels(text) == {i \in DOMAIN text : text[i].f \in {"case 0u:\n", "case %uu:\n"}}

C4_EndToEnd ==
  C4_Scenario =>
    /\ source_inner_ = C4_Body
    /\ Cardinality(CaseLabels(source)) = 1
    /\ \E i \in DOMAIN source :
         /\ SubSeq(source, i, i + Len(C4_Body) - 1) = C4_Body
         /\ source[i + Len(C4_Body)].f =
              "      default:\n      xe_pc = 0xFFFFu;\n      break;\n    }\n  } while (xe_pc != 0xFFFFu);\n"
    /\ Count(source, "      xe_pc = 0xFFFFu;\n      break;\n", <<>>) = 0

C4_Witness == C4_Scenario /\ C4_EndToEnd

\* C10: a call or a return records the unimplemented-translation error with the
\* base translator and appends only comments: the disassembly and the marker
\* "// UNIMPLEMENTED TRANSLATION".  It does not assign the counter and leaves
\* cf_wrote_pc_ false, so the instruction is then treated as falling through.
CallsAndReturns ==
  Cardinality({k \in DOMAIN history : history[k].instr.kind \in {"call", "return"}})
  + (IF pos = "end" /\ cur.kind \in {"call", "return"} THEN 1 ELSE 0)

C10_CallReturn ==
  /\ Len(errors_) = CallsAndReturns
  /\ \A i \in DOMAIN errors_ :
       errors_[i] = [is_fatal |-> FALSE, message |-> "Unimplemented translation"]
  /\ call.op \in {"ProcessCallInstruction", "ProcessReturnInstruction"} =>
       /\ call.emitted = <<Line(depth_, "// ", <<>>), Disassemble,
                           Line(depth_, "// UNIMPLEMENTED TRANSLATION\n", <<>>)>>
       /\ \A i \in DOMAIN call.emitted : call.emitted[i].f \in CommentFormats
       /\ ~AssignsCounter(call.emitted)
       /\ ~cf_wrote_pc_
  /\ \A k \in DOMAIN history :
       history[k].instr.kind \in {"call", "return"} =>
         /\ ~history[k].wrote_pc
         /\ FallthroughComments(history[k].instr.dword_index + 1) = 1

C10_Witness ==
  /\ call.op = "ProcessControlFlowInstructionEnd"
  /\ Len(history) = 2
  /\ history[1].instr.kind = "call"
  /\ history[2].instr.kind = "return"
  /\ Len(errors_) = 2

\* a piece that is one of the error markers.  No handler of this translator
\* reports an error with a message, so the only marker it writes is the
\* unimplemented one.
IsErrorMarker(p) == p.f = "// UNIMPLEMENTED TRANSLATION\n"

\* text that holds a statement, not only comments
HasStatement(text) == \E i \in DOMAIN text : text[i].f \notin CommentFormats

HasErrorMarker(text) == \E i \in DOMAIN text : IsErrorMarker(text[i])

\* the handlers that process one instruction with something to translate
TranslatingHandlers ==
  {"ProcessAluInstruction", "ProcessVertexFetchInstruction",
   "ProcessTextureFetchInstruction", "ProcessLoopStartInstruction",
   "ProcessLoopEndInstruction", "ProcessCallInstruction",
   "ProcessReturnInstruction", "ProcessJumpInstruction"}

\* C11 (as stated): no instruction is dropped silently.  After the handler of
\* an instruction has run, either it emitted the instruction's translation (a
\* statement; for an ALU nop the comment is the whole translation) or an error
\* is recorded and an error marker comment was appended by that handler; in
\* particular a vertex fetch with fewer than two operands, or whose second
\* operand is not a vertex fetch constant, is recorded and marked.  Every
\* marker in the text has its recorded error.
C11_AsStated ==
  /\ call.op \in TranslatingHandlers =>
       \/ call.op = "ProcessAluInstruction" /\ alu.type = "kNop"
       \/ HasStatement(call.emitted)
       \/ HasErrorMarker(call.emitted) /\ errors_ # <<>>
  /\ call.op = "ProcessVertexFetchInstruction" /\ ~VertexFetchWellFormed(alu) =>
       HasErrorMarker(call.emitted) /\ errors_ # <<>>
  /\ Len(errors_) = Cardinality({i \in DOMAIN source_inner_ :
                                   IsErrorMarker(source_inner_[i])})

\* the state C11 fails in: a malformed vertex fetch has been processed, only
\* its disassembly comment was appended and nothing was recorded
C11_SilentDrop ==
  /\ call.op = "ProcessVertexFetchInstruction"
  /\ ~VertexFetchWellFormed(alu)
  /\ call.emitted = <<Line(depth_, "// ", <<>>), Disassemble>>
  /\ errors_ = <<>>

-----------------------------------------------------------------------------
(* SpecAlu: ProcessAluInstruction applied once, inside an exec block, to every *)
(* instruction of a set that varies its result (for EmitStoreResult) or its   *)
(* first operand (for EmitLoadOperand).                                       *)

UnitExec == CfInstr("exec", 0)

\* the scalar instruction of AluInstrs that writes the depth output
DepthWrite ==
  Instr("alu", "kScalar", "kAdd", "kSetpClr", FALSE, FALSE, <<Register(0)>>,
        Result("kDepth", 0, "kStatic", TRUE, <<TRUE, FALSE, FALSE, FALSE>>,
               StandardSwizzle),
        NoAttributes)

\* The translator inside the unconditional exec block at address 0, after the
\* ALU instructions of prior, with room for one more instruction.
InExecBlock(prior) ==
  LET begin == ProcessExecInstructionBeginText(6, UnitExec)
      Text(i) == ProcessAluInstructionText(8, prior[i], FALSE, FALSE)
  IN /\ source_inner_ = StartTranslationText(6) \o begin
                          \o Flatten([i \in DOMAIN prior |-> Text(i)])
     /\ depth_ = 8
     /\ cf_wrote_pc_ = FALSE
     /\ cf_exec_pred_ = FALSE
     /\ cf_exec_pred_cond_ = FALSE
     /\ writes_depth_ = \E i \in DOMAIN prior : StoreResultWritesDepth(prior[i].result)
     /\ srv_bindings_ = <<>>
     /\ sampler_count_ = 0
     /\ sampler_fetch_constants_ = <<>>
     /\ cube_used_ = FALSE
     /\ errors_ = <<>>
     /\ phase = "translating"
     /\ pos = "exec"
     /\ cf_index = 0
     /\ labelled = FALSE
     /\ mark = 1
     /\ cur = UnitExec
     /\ alu = IF prior = <<>> THEN NoInstr ELSE prior[Len(prior)]
     /\ ninstr = MaxInstr - 1
     /\ source = <<>>
     /\ call = IF prior = <<>>
                 THEN Call("ProcessExecInstructionBegin", begin, -1)
                 ELSE Call("ProcessAluInstruction", Text(Len(prior)), -1)
     /\ history = <<>>
     /\ run = NoRun

WriteMasks == [1..4 -> BOOLEAN]

StoreResults ==
  {Result(t, i, m, c, <<w[1], w[2], w[3], w[4]>>, s) :
     t \in StorageTargets, i \in {5}, m \in AddressingModes, c \in BOOLEAN,
     w \in WriteMasks,
     s \in {StandardSwizzle, <<"k0", "kY", "k1", "kW">>, <<"kW", "kW", "kW", "kW">>}}

StoreInstrs ==
  {Instr("alu", t, "kAdd", "kAdds", FALSE, FALSE, <<Register(0), Register(1)>>, r,
         NoAttributes) : t \in {"kVector", "kScalar"}, r \in StoreResults}

\* every swizzle of up to three components, and the four-component swizzles
\* of register components
Swizzles(n) ==
  [1..n -> IF n < 4 THEN SwizzleSources ELSE {"kX", "kY", "kZ", "kW"}]

LoadOperands ==
  UNION {{Operand(s, 37, m, FALSE, n = 2, n, [i \in 1..n |-> c[i]]) :
            s \in StorageSources \ {"kVertexFetchConstant"}, m \in AddressingModes,
            c \in Swizzles(n)} : n \in 1..4}

LoadInstrs ==
  {Instr("alu", "kVector", "kAdd", "kAdds", FALSE, FALSE, <<op, Register(1)>>,
         WriteRegister(0), NoAttributes) : op \in LoadOperands}

InitAlu ==
  /\ input \in [op : {"EmitStoreResult"}, instr : StoreInstrs,
                prior : {<<>>, <<DepthWrite>>}]
              \cup [op : {"EmitLoadOperand"}, instr : LoadInstrs, prior : {<<>>}]
  /\ InExecBlock(input.prior)

NextAlu == ProcessAluInstruction(input.instr)

SpecAlu == InitAlu /\ [][NextAlu]_vars

\* C1: a Result whose write mask is all-false makes EmitStoreResult append
\* nothing and leave writes_depth_ alone, for every storage target, addressing
\* mode, swizzle and clamp flag: the instruction's text ends with the opcode's
\* statement, after the comment (2 pieces) and the two operand loads (5 each).
C1_NoOpWrite ==
  [][(input.op = "EmitStoreResult" /\ ~has_any_writes(input.instr.result)) =>
       /\ writes_depth_' = writes_depth_
       /\ \E text \in {<<Line(8, "xe_pv = xe_src0 + xe_src1;\n", <<>>)>>,
                       <<Line(8, "xe_ps = xe_src0.x + xe_src0.y;\n", <<>>)>>} :
            /\ Len(call'.emitted) = 13
            /\ SubSeq(call'.emitted, 13, 13) = text
            /\ source_inner_' = source_inner_ \o call'.emitted]_vars

\* C1 witness: the all-false write to the depth output has run, in a block
\* that had already written depth
C1_Witness ==
  /\ input.op = "EmitStoreResult"
  /\ alu = input.instr
  /\ ninstr = MaxInstr
  /\ ~has_any_writes(alu.result)
  /\ alu.result.storage_target = "kDepth"
  /\ input.prior # <<>>
  /\ writes_depth_
  /\ Len(call.emitted) = 13

\* the pieces between the operand expression's ")" and the statement's ";"
Selectors(text) ==
  LET k == CHOOSE i \in DOMAIN text :
             text[i].f = ")" /\ \A j \in 1..(i - 1) : text[j].f # ")"
      m == CHOOSE i \in DOMAIN text :
             text[i].f = ";\n" /\ \A j \in 1..(i - 1) : text[j].f # ";\n"
  IN SubSeq(text, k + 1, m - 1)

\* C8: for a register or float-constant operand whose swizzle is not the
\* standard xyzw, EmitLoadOperand emits "." and exactly four selectors: the
\* component_count requested ones in order, then the last requested one
\* repeated (x gives xxxx, xy gives xyyy, xyz gives xyzz); integer and boolean
\* constants always get ".xxxx".
C8_SwizzlePadding ==
  (input.op = "EmitLoadOperand" /\ alu = input.instr /\ ninstr = MaxInstr) =>
    LET op == alu.operands[1]
        n == op.component_count
        sel == Selectors(call.emitted)
        Chars(str) == <<Part(".", <<>>)>> \o [i \in 1..4 |-> Part(str[i], <<>>)]
    IN /\ op.storage_source \in {"kConstantInt", "kConstantBool"} =>
            sel = <<Part(".xxxx", <<>>)>>
       /\ (op.storage_source \in {"kRegister", "kConstantFloat"}
             /\ ~(n = 4 /\ op.components = StandardSwizzle)) =>
            /\ Len(sel) = 5
            /\ sel = Chars([i \in 1..4 |->
                              GetCharForSwizzle(op.components[IF i <= n THEN i ELSE n])])
            /\ op.components = <<"kX">> => sel = Chars(<<"x", "x", "x", "x">>)
            /\ op.components = <<"kX", "kY">> => sel = Chars(<<"x", "y", "y", "y">>)
            /\ op.components = <<"kX", "kY", "kZ">> =>
                 sel = Chars(<<"x", "y", "z", "z">>)

\* C8 witness: the load of a two-component register operand has been emitted
C8_Witness ==
  /\ input.op = "EmitLoadOperand"
  /\ alu = input.instr
  /\ ninstr = MaxInstr
  /\ alu.operands[1].storage_source = "kRegister"
  /\ alu.operands[1].components = <<"kX", "kY">>
  /\ Len(Selectors(call.emitted)) = 5

-----------------------------------------------------------------------------
(* SpecJump: ProcessJumpInstruction applied once to every jump of a set, at   *)
(* address 0 or at address 5 after five cnop instructions.                     *)

\* The translator after ProcessControlFlowInstructionBegin for address d, the
\* addresses before d holding cnop instructions, with room for one more
\* instruction.
AfterNops(d) ==
  LET Nop(i) == ProcessControlFlowNopInstructionText(6)
                  \o ProcessControlFlowInstructionEndText(6, i, FALSE)
  IN /\ source_inner_ = StartTranslationText(6) \o ConcatFor(0, d - 1, [i \in (0)..(d - 1) |-> Nop(i)])
     /\ depth_ = 6
     /\ cf_wrote_pc_ = FALSE
     /\ cf_exec_pred_ = FALSE
     /\ cf_exec_pred_cond_ = FALSE
     /\ writes_depth_ = FALSE
     /\ srv_bindings_ = <<>>
     /\ sampler_count_ = 0
     /\ sampler_fetch_constants_ = <<>>
     /\ cube_used_ = FALSE
     /\ errors_ = <<>>
     /\ phase = "translating"
     /\ pos = "instr"
     /\ cf_index = d
     /\ labelled = FALSE
     /\ mark = 1 + 2 * d
     /\ cur = IF d = 0 THEN NoCf ELSE CfInstr("cnop", d - 1)
     /\ alu = NoInstr
     /\ ninstr = MaxInstr - 1
     /\ source = <<>>
     /\ call = Call("ProcessControlFlowInstructionBegin", <<>>, -1)
     /\ history = [i \in 1..d |->
                     [instr |-> CfInstr("cnop", i - 1), labelled |-> FALSE,
                      wrote_pc |-> FALSE, from |-> 2 * i - 1, to |-> 2 * i]]
     /\ run = NoRun

UnitJumps ==
  {[CfInstr("jump", d) EXCEPT !.type = t, !.condition = c,
                              !.bool_constant_index = b, !.target_address = a] :
     d \in {0, 5}, t \in {"kUnconditional", "kConditional", "kPredicated"},
     c \in BOOLEAN, b \in 0..255, a \in {0, 3, 9}}

InitJump ==
  /\ input \in [op : {"ProcessJumpInstruction"}, instr : UnitJumps]
  /\ AfterNops(input.instr.dword_index)

NextJump == ProcessJumpInstruction(input.instr)

SpecJump == InitJump /\ [][NextJump]_vars

\* C5: a boolean-conditional jump with boolean-constant index b, polarity c,
\* target t and own address d tests bit (b mod 32) of boolean word (b div 32)
\* (non-zero when c is true, zero when c is false), assigns the counter to t and
\* breaks when the test passes, and assigns the counter to d + 1 in the else
\* branch; b = 40, d = 5 gives word 1, bit 8 and else-target 6.  An
\* unconditional jump has no else branch.
C5_ConditionalJump ==
  call.op = "ProcessJumpInstruction" =>
    LET b == cur.bool_constant_index
        t == cur.target_address
        d == cur.dword_index
        Taken == <<Line(8, "xe_pc = %uu;  // L%u\n", <<t, t>>),
                   Line(8, "break;\n", <<>>)>>
    IN /\ cur.type = "kConditional" =>
            /\ call.emitted =
                 <<Line(6, "// ", <<>>), Disassemble,
                   Line(6, IF cur.condition
                             THEN "if ((xe_bool_constants[%u] & (1u << %uu)) != 0u) {\n"
                             ELSE "if ((xe_bool_constants[%u] & (1u << %uu)) == 0u) {\n",
                        <<b \div 32, b % 32>>)>>
                 \o Taken
                 \o <<Line(6, "} else {\n", <<>>),
                      Line(6, "  xe_pc = %uu;  // Fallthrough to L%u\n",
                           <<d + 1, d + 1>>),
                      Line(6, "}\n", <<>>)>>
            /\ (b = 40 /\ d = 5) =>
                 /\ call.emitted[3].a = <<1, 8>>
                 /\ call.emitted[7].a = <<6, 6>>
       /\ cur.type = "kUnconditional" =>
            call.emitted = <<Line(6, "// ", <<>>), Disassemble, Line(6, "{\n", <<>>)>>
                           \o Taken \o <<Line(6, "}\n", <<>>)>>

\* C5 witness: the jump on boolean constant 40 at address 5 has been emitted
C5_Witness ==
  /\ call.op = "ProcessJumpInstruction"
  /\ cur.type = "kConditional"
  /\ cur.bool_constant_index = 40
  /\ cur.dword_index = 5
  /\ Len(call.emitted) = 8

-----------------------------------------------------------------------------
(* SpecBind: the binding allocator.  AddSRVBinding and AddSampler are called  *)
(* by fetch translation between StartTranslation and CompleteTranslation;     *)
(* Reset empties the tables for the next translation.                         *)

\* the resource kinds (enum SRVType) and the fetch constants requested
SRVTypes == {"kind_a", "kind_b"}
SRVFetchConstants == {0, 1}
SamplerFetchConstants == {0, 31}

\* the scan that never finds an existing binding
SRVBindingIndex_NeverFound(bindings, type, fetch_constant) == -1

\* the scan that compares the fetch constant only
SRVBindingIndex_FetchConstantOnly(bindings, type, fetch_constant) ==
  LET Found == {i \in DOMAIN bindings : bindings[i].fetch_constant = fetch_constant}
  IN IF Found = {} THEN -1
     ELSE (CHOOSE i \in Found : \A j \in Found : i <= j) - 1

\* the scan of AddSRVBinding: the index of the first binding with this type
\* and fetch constant, -1 when the loop ends without one
SRVBindingIndex(bindings, type, fetch_constant) ==
  LET Found == {i \in DOMAIN bindings :
                  /\ bindings[i].type = type
                  /\ bindings[i].fetch_constant = fetch_constant}
  IN IF Found = {} THEN -1
     ELSE (CHOOSE i \in Found : \A j \in Found : i <= j) - 1

\* the scan of AddSampler over the first count slots of the array
SamplerIndex(fetch_constants, count, fetch_constant) ==
  LET Found == {i \in 1..count : fetch_constants[i] = fetch_constant}
  IN IF Found = {} THEN -1
     ELSE (CHOOSE i \in Found : \A j \in Found : i <= j) - 1

\* whether op was called with this key since Reset, and what it returned then
Requested(op, type, fetch_constant) ==
  {k \in DOMAIN history : /\ history[k].op = op
                          /\ history[k].type = type
                          /\ history[k].fetch_constant = fetch_constant}

Request(op, type, fetch_constant, ret) ==
  IF Requested(op, type, fetch_constant) = {}
    THEN Append(history, [op |-> op, type |-> type,
                          fetch_constant |-> fetch_constant, ret |-> ret])
    ELSE history

BindFrame ==
  UNCHANGED <<source_inner_, depth_, cf_wrote_pc_, cf_exec_pred_, cf_exec_pred_cond_,
              writes_depth_, cube_used_, errors_, phase, pos, cf_index, labelled,
              mark, cur, alu, ninstr, source, run>>

AddSRVBinding(type, fetch_constant) ==
  /\ phase = "translating"
  /\ LET i == SRVBindingIndex(srv_bindings_, type, fetch_constant)
         ret == IF i >= 0 THEN i ELSE Len(srv_bindings_')  - 1
     IN /\ srv_bindings_' =
             IF i >= 0 THEN srv_bindings_
             ELSE Append(srv_bindings_,
                         [type |-> type, fetch_constant |-> fetch_constant])
        /\ call' = Call("AddSRVBinding", <<>>, ret)
        /\ history' = Request("AddSRVBinding", type, fetch_constant, ret)
  /\ input' = [op |-> "AddSRVBinding", type |-> type,
               fetch_constant |-> fetch_constant]
  /\ UNCHANGED <<sampler_count_, sampler_fetch_constants_>>
  /\ BindFrame

\* sampler_fetch_constants_ is a fixed array: its slots keep what earlier
\* translations wrote, and only the first sampler_count_ are read
AddSampler(fetch_constant) ==
  /\ phase = "translating"
  /\ LET i == SamplerIndex(sampler_fetch_constants_, sampler_count_, fetch_constant)
         ret == IF i >= 0 THEN i ELSE sampler_count_
     IN /\ sampler_fetch_constants_' =
             IF i >= 0 THEN sampler_fetch_constants_
             ELSE IF sampler_count_ < Len(sampler_fetch_constants_)
               THEN [sampler_fetch_constants_ EXCEPT ![sampler_count_ + 1] =
                       fetch_constant]
               ELSE Append(sampler_fetch_constants_, fetch_constant)
        /\ sampler_count_' = IF i >= 0 THEN sampler_count_ ELSE sampler_count_ + 1
        /\ call' = Call("AddSampler", <<>>, ret)
        /\ history' = Request("AddSampler", "sampler", fetch_constant, ret)
  /\ input' = [op |-> "AddSampler", type |-> "sampler",
               fetch_constant |-> fetch_constant]
  /\ UNCHANGED srv_bindings_
  /\ BindFrame

NextBind ==
  \/ Reset
  \/ StartTranslation
  \/ \E type \in SRVTypes, fetch_constant \in SRVFetchConstants :
       AddSRVBinding(type, fetch_constant)
  \/ \E fetch_constant \in SamplerFetchConstants : AddSampler(fetch_constant)
  \/ \E is_vertex_shader \in BOOLEAN : CompleteTranslation(is_vertex_shader, 2)

SpecBind == Init /\ [][NextBind]_vars

NoDuplicateBindings ==
  /\ \A i, j \in DOMAIN srv_bindings_ : srv_bindings_[i] = srv_bindings_[j] => i = j
  /\ \A i, j \in 1..sampler_count_ :
       sampler_fetch_constants_[i] = sampler_fetch_constants_[j] => i = j

\* C6: since the last Reset, AddSRVBinding(K, F) with a (K, F) pair already
\* requested returns the index returned the first time and leaves the binding
\* table unchanged, and the table never holds two entries with the same pair;
\* the same for AddSampler keyed by the fetch constant alone.
C6_Deduplication ==
  [][/\ \A k \in Requested(call'.op, input'.type, input'.fetch_constant) :
          /\ call'.op \in {"AddSRVBinding", "AddSampler"}
          /\ call'.ret = history[k].ret
          /\ srv_bindings_' = srv_bindings_
          /\ sampler_count_' = sampler_count_
          /\ sampler_fetch_constants_' = sampler_fetch_constants_
     /\ NoDuplicateBindings']_vars

\* C6 witness: with two bindings in the table, AddSRVBinding has returned
\* index 0 for the pair requested first
C6_Witness ==
  /\ call.op = "AddSRVBinding"
  /\ call.ret = 0
  /\ Len(srv_bindings_) = 2
  /\ sampler_count_ = 2

\* the first requests of op since Reset, in order
FirstRequests(op) == SelectSeq(history, LAMBDA h : h.op = op)

\* C7: binding indices are dense and follow first-seen order: since the last
\* Reset the n-th distinct (kind, fetch-constant) pair requested was returned
\* index n - 1, the table has grown by one for each and still holds each pair
\* at the index handed out; the same for AddSampler and sampler_count_.
C7_DenseIndices ==
  /\ LET srv == FirstRequests("AddSRVBinding")
     IN /\ Len(srv_bindings_) = Len(srv)
        /\ \A n \in DOMAIN srv :
             /\ srv[n].ret = n - 1
             /\ srv_bindings_[srv[n].ret + 1] =
                  [type |-> srv[n].type, fetch_constant |-> srv[n].fetch_constant]
  /\ LET smp == FirstRequests("AddSampler")
     IN /\ sampler_count_ = Len(smp)
        /\ \A n \in DOMAIN smp :
             /\ smp[n].ret = n - 1
             /\ sampler_fetch_constants_[smp[n].ret + 1] = smp[n].fetch_constant
  /\ call.op = "AddSRVBinding" => call.ret \in 0..(Len(srv_bindings_) - 1)
  /\ call.op = "AddSampler" => call.ret \in 0..(sampler_count_ - 1)

\* C7 witness: three distinct pairs and two distinct sampler fetch constants
\* have been requested, the last call returning the new index 2
C7_Witness ==
  /\ Len(srv_bindings_) = 3
  /\ sampler_count_ = 2
  /\ call.op = "AddSRVBinding"
  /\ call.ret = 2

-----------------------------------------------------------------------------
(* Executing emitted statements.  A shader state holds the variables declared *)
(* by CompleteTranslation that the statements below use; vectors are tuples   *)
(* <<x, y, z, w>>.                                                            *)

\* a decrement by two
Dec32_ByTwo(x) == x - 2

\* x - 1 on a uint; 0 - 1 wraps to 0xFFFFFFFF, written -1 here
Dec32(x) == IF x = 0 THEN -1 ELSE x - 1

\* int(c << 8u) >> 24: bits 16..23 of c as a signed byte
SignedByte2(c) ==
  LET byte == (c \div 65536) % 256 IN IF byte >= 128 THEN byte - 256 ELSE byte

\* A 32-bit float is [m, e], the value m * 2^e with m odd or m = e = 0; the
\* values below stay in the normal range, so rounding is to 24 significant
\* bits, to nearest, ties to even.
RECURSIVE Canon(_, _)
Canon(m, e) ==
  IF m = 0 THEN [m |-> 0, e |-> 0]
  ELSE IF m % 2 = 0 THEN Canon(m \div 2, e + 1)
  ELSE [m |-> m, e |-> e]

Abs(x) == IF x < 0 THEN -x ELSE x

RoundFloat(m, e) ==
  LET a == Abs(m)
  IN IF a < 2 ^ 24 THEN Canon(m, e)
     ELSE LET k == CHOOSE i \in 1..7 : a \div (2 ^ i) < 2 ^ 24 /\ a \div (2 ^ (i - 1)) >= 2 ^ 24
              q == a \div (2 ^ k)
              r == a % (2 ^ k)
              half == 2 ^ (k - 1)
              up == IF r > half \/ (r = half /\ q % 2 = 1) THEN 1 ELSE 0
          IN Canon((IF m < 0 THEN -1 ELSE 1) * (q + up), e + k)

FloatFromInt(v) == Canon(v, 0)

\* the float nearest to a / b, for 0 < a < b < 2^8
FloatDiv(a, b) ==
  LET s == CHOOSE i \in 23..30 : (a * 2 ^ i) \div b >= 2 ^ 23 /\ (a * 2 ^ i) \div b < 2 ^ 24
      q == (a * 2 ^ s) \div b
      r == (a * 2 ^ s) % b
      up == IF 2 * r > b \/ (2 * r = b /\ q % 2 = 1) THEN 1 ELSE 0
  IN Canon(q + up, -s)

FloatMul(x, y) == RoundFloat(x.m * y.m, x.e + y.e)

FloatLess(x, y) ==
  LET e == IF x.e < y.e THEN x.e ELSE y.e
  IN x.m * 2 ^ (x.e - e) < y.m * 2 ^ (y.e - e)

FloatMax(x, y) == IF FloatLess(x, y) THEN y ELSE x

\* a uint lane is [hi, lo], its two 16-bit halves; (u >> 8k) & 255
ByteOf(u, k) ==
  IF k < 2 THEN (u.lo \div (2 ^ (8 * k))) % 256
           ELSE (u.hi \div (2 ^ (8 * (k - 2)))) % 256

\* int(u << 24u) >> 24: the low byte of u moved to the top of the word, read as
\* a two's complement int, shifted back arithmetically
SignExtendByte(u) ==
  LET byte == u.lo % 256
      shifted == IF byte >= 128 THEN (byte - 256) * 2 ^ 24 ELSE byte * 2 ^ 24
  IN shifted \div (2 ^ 24)

\* one statement that is not an if, an else or a break
ExecStatement(p, st) ==
  LET lc == st.xe_loop_count
      aL == st.xe_aL
  IN CASE p.f \in {"// ", "<disassembly>\n"} -> st
       [] p.f = "xe_loop_count.yzw = xe_loop_count.xyz;\n" ->
            [st EXCEPT !.xe_loop_count = <<lc[1], lc[1], lc[2], lc[3]>>]
       [] p.f = "xe_loop_count.x = xe_loop_constants[%u] & 0xFFu;\n" ->
            [st EXCEPT !.xe_loop_count[1] = st.xe_loop_constants[p.a[1] + 1] % 256]
       [] p.f = "xe_aL = xe_aL.xxyz;\n" ->
            [st EXCEPT !.xe_aL = <<aL[1], aL[1], aL[2], aL[3]>>]
       [] p.f = "xe_aL.x = int((xe_loop_constants[%u] >> 8u) & 0xFFu);\n" ->
            [st EXCEPT !.xe_aL[1] = (st.xe_loop_constants[p.a[1] + 1] \div 256) % 256]
       [] p.f = "xe_loop_count.xyz = xe_loop_count.yzw;\n" ->
            [st EXCEPT !.xe_loop_count = <<lc[2], lc[3], lc[4], lc[4]>>]
       [] p.f = "xe_loop_count.w = 0u;\n" -> [st EXCEPT !.xe_loop_count[4] = 0]
       [] p.f = "xe_aL.xyz = xe_aL.yzw;\n" ->
            [st EXCEPT !.xe_aL = <<aL[2], aL[3], aL[4], aL[4]>>]
       [] p.f = "xe_aL.w = 0;\n" -> [st EXCEPT !.xe_aL[4] = 0]
       [] p.f = "xe_aL.x += int(xe_loop_constants[%u] << 8u) >> 24;\n" ->
            [st EXCEPT !.xe_aL[1] =
               aL[1] + SignedByte2(st.xe_loop_constants[p.a[1] + 1])]
       [] p.f \in {"  xe_pc = %uu;  // Skip loop to L%u\n",
                   "  xe_pc = %uu;  // Fallthrough to loop body L%u\n",
                   "xe_pc = %uu;  // Exit loop to L%u\n",
                   "xe_pc = %uu;  // Loop back to body L%u\n"} ->
            [st EXCEPT !.xe_pc = p.a[1]]
       [] p.f = "xe_pv = float4(int4(xe_vertex_element << 24u) >> 24);\n" ->
            [st EXCEPT !.xe_pv =
               [i \in 1..4 |-> FloatFromInt(SignExtendByte(st.xe_vertex_element[i]))]]
       [] p.f = "xe_pv = float4(xe_vertex_element);\n" ->
            [st EXCEPT !.xe_pv =
               [i \in 1..4 |-> FloatFromInt(st.xe_vertex_element[i].lo)]]
       [] p.f = "xe_pv = max(xe_pv * (1.0 / 127.0), (-1.0).xxxx);\n" ->
            [st EXCEPT !.xe_pv =
               [i \in 1..4 |-> FloatMax(FloatMul(st.xe_pv[i], FloatDiv(1, 127)),
                                        FloatFromInt(-1))]]
       [] OTHER -> [st EXCEPT !.stuck = TRUE]

\* the statements of text from the i-th on, up to the break that leaves the
\* case; mode is "run", "to_else" (skipping a branch not taken) or "to_end"
\* (skipping the else of a branch taken)
RECURSIVE ExecFrom(_, _, _, _)
ExecFrom(text, i, mode, st) ==
  IF i > Len(text) THEN st
  ELSE
    LET p == text[i]
    IN CASE mode = "to_else" ->
              ExecFrom(text, i + 1,
                       IF p.f \in {"} else {\n", "}\n"} THEN "run" ELSE mode, st)
         [] mode = "to_end" ->
              ExecFrom(text, i + 1, IF p.f = "}\n" THEN "run" ELSE mode, st)
         [] p.f = "break;\n" -> st
         [] /\ p.f = "xe_vertex_element = (xe_vertex_element.xxxx >>\n"
            /\ i < Len(text)
            /\ text[i + 1].f = "    uint4(0u, 8u, 16u, 24u)) & 255u;\n" ->
              ExecFrom(text, i + 2, "run",
                       [st EXCEPT !.xe_vertex_element =
                          [k \in 1..4 |->
                             [hi |-> 0, lo |-> ByteOf(st.xe_vertex_element[1], k - 1)]]])
         [] p.f = "} else {\n" -> ExecFrom(text, i + 1, "to_end", st)
         [] p.f = "}\n" -> ExecFrom(text, i + 1, "run", st)
         [] p.f = "if (xe_loop_count.x == 0u) {\n" ->
              ExecFrom(text, i + 1,
                       IF st.xe_loop_count[1] = 0 THEN "run" ELSE "to_else", st)
         [] p.f = "if (--xe_loop_count.x == 0u" ->
              LET count == Dec32(st.xe_loop_count[1])
                  rest == text[i + 1].f
                  taken == \/ count = 0
                           \/ rest = " ||  xe_p0) {\n" /\ st.xe_p0
                           \/ rest = " || !xe_p0) {\n" /\ ~st.xe_p0
              IN ExecFrom(text, i + 2, IF taken THEN "run" ELSE "to_else",
                          [st EXCEPT !.xe_loop_count[1] = count,
                                     !.exits = IF taken THEN @ + 1 ELSE @])
         [] OTHER -> ExecFrom(text, i + 1, "run", ExecStatement(p, st))

ExecCase(text, st) == ExecFrom(text, 1, "run", st)

-----------------------------------------------------------------------------
(* SpecRun: the dispatch loop running the code emitted for n nested loops,    *)
(* loop starts at addresses 0..n-1 and their loop ends at n..2n-1, from every *)
(* content of the two loop stacks in a set.                                   *)

\* the control flow instruction at address a of the n-loop program
LoopProgram(n, a, is_repeat, is_predicated_break) ==
  IF a < n
    THEN [CfInstr("loop_start", a) EXCEPT !.loop_constant_index = a,
                                          !.is_repeat = is_repeat,
                                          !.loop_skip_address = 2 * n - a]
    ELSE [CfInstr("loop_end", a) EXCEPT !.loop_constant_index = 2 * n - 1 - a,
                                        !.loop_body_address = 2 * n - a,
                                        !.is_predicated_break = is_predicated_break,
                                        !.predicate_condition = TRUE]

\* loop constants: count | start << 8 | step << 16, with counts 1 and 2, start 5
\* and steps 1 and -1
LoopConstantValues == {1 + 5 * 256 + 1 * 65536, 2 + 5 * 256 + 255 * 65536}

\* stack contents: empty, one to four entries in use, and a lone last entry
StackContents(v) ==
  {<<0, 0, 0, 0>>, <<v, 0, 0, 0>>, <<v, v + 1, 0, 0>>, <<v, v + 1, v + 2, 0>>,
   <<v, v + 1, v + 2, v + 3>>, <<0, 0, 0, v>>}

InitRun ==
  /\ Constructed
  /\ input \in [op : {"run"}, n : 1..kLoopStackDepth, is_repeat : BOOLEAN,
                is_predicated_break : BOOLEAN, constant : LoopConstantValues,
                xe_aL : StackContents(-5), xe_loop_count : StackContents(7)]
  /\ run = [xe_aL |-> input.xe_aL, xe_loop_count |-> input.xe_loop_count,
            xe_pc |-> 0, xe_p0 |-> FALSE,
            xe_loop_constants |-> [i \in 1..kLoopStackDepth |-> input.constant],
            stuck |-> FALSE, starts |-> 0, exits |-> 0]

RunFrame ==
  UNCHANGED <<translator, errors_, phase, pos, cf_index, labelled, mark, cur, alu,
              ninstr, source, call, history, input>>

\* the case of a loop start
RunLoopStart ==
  /\ run.xe_pc < input.n
  /\ LET instr == LoopProgram(input.n, run.xe_pc, input.is_repeat,
                              input.is_predicated_break)
     IN run' = ExecCase(ProcessLoopStartInstructionText(6, instr),
                        [run EXCEPT !.starts = @ + 1])
  /\ RunFrame

\* the case of a loop end; the loop body has left any value in xe_p0
RunLoopEnd ==
  /\ run.xe_pc \in input.n..(2 * input.n - 1)
  /\ \E p0 \in BOOLEAN :
       LET instr == LoopProgram(input.n, run.xe_pc, input.is_repeat,
                                input.is_predicated_break)
       IN run' = ExecCase(ProcessLoopEndInstructionText(6, instr),
                          [run EXCEPT !.xe_p0 = p0])
  /\ RunFrame

NextRun == RunLoopStart \/ RunLoopEnd

SpecRun == InitRun /\ [][NextRun]_vars

\* the program has left its last loop, every loop start matched by an exit
LoopsLeft == run.xe_pc = 2 * input.n /\ run.starts = run.exits /\ ~run.stuck

\* C3 (as stated): for every N in 1..4 and every pre-loop content of the loop
\* index stack xe_aL and the loop count stack xe_loop_count, the code of N
\* nested loop starts followed by the exiting branch of N loop ends returns
\* both stacks to their pre-loop values.
C3_AsStated ==
  LoopsLeft => /\ run.xe_aL = input.xe_aL
               /\ run.xe_loop_count = input.xe_loop_count

\* the last n entries of a stack are zero
TailZero(stack, n) == \A i \in (kLoopStackDepth - n + 1)..kLoopStackDepth : stack[i] = 0

\* C3 (amended): for every N in 1..4 and every pre-loop content of the two
\* stacks whose last N entries are zero (at most 4 - N loops already open),
\* the code of N nested loop starts followed by the exiting branch of N loop
\* ends returns both stacks to their pre-loop values; a push discards the
\* fourth entry and a pop refills it with zero.
C3_StackBalance ==
  (LoopsLeft /\ TailZero(input.xe_aL, input.n)
             /\ TailZero(input.xe_loop_count, input.n)) =>
    /\ run.xe_aL = input.xe_aL
    /\ run.xe_loop_count = input.xe_loop_count

\* C3 witness: two nested loops have run and exited with two loops already
\* open around them
C3_Witness ==
  /\ LoopsLeft
  /\ input.n = 2
  /\ input.xe_aL = <<-5, -4, 0, 0>>
  /\ input.xe_loop_count = <<7, 8, 0, 0>>
  /\ run.exits >= 2
  /\ run.xe_aL = input.xe_aL
  /\ run.xe_loop_count = input.xe_loop_count

-----------------------------------------------------------------------------
(* SpecDecode: the conversion statements of vertex format 8_8_8_8 running on  *)
(* a loaded dword.  The unsigned normalized conversion is left out: its       *)
(* product does not fit the integers FloatMul multiplies.                     *)

DecodeAttributes ==
  {[data_format |-> "k_8_8_8_8", is_signed |-> s, is_integer |-> i, stride |-> 4,
    offset |-> 0] : s \in BOOLEAN, i \in BOOLEAN} \
  {[data_format |-> "k_8_8_8_8", is_signed |-> FALSE, is_integer |-> FALSE,
    stride |-> 4, offset |-> 0]}

\* the bytes of the loaded dword, lowest first
DecodeBytes ==
  {<<b, c[1], c[2], c[3]>> : b \in 0..255, c \in [1..3 -> {127, 128}]}

InitDecode ==
  /\ Constructed
  /\ input \in [op : {"decode"}, attributes : DecodeAttributes, bytes : DecodeBytes]
  /\ run = [xe_vertex_element |->
              <<[hi |-> input.bytes[3] + 256 * input.bytes[4],
                 lo |-> input.bytes[1] + 256 * input.bytes[2]],
                [hi |-> 0, lo |-> 0], [hi |-> 0, lo |-> 0], [hi |-> 0, lo |-> 0]>>,
            xe_pv |-> [i \in 1..4 |-> FloatFromInt(0)],
            stuck |-> FALSE, done |-> FALSE]

RunVertexFormat ==
  /\ ~run.done
  /\ run' = ExecCase(VertexFormatText(8, input.attributes), [run EXCEPT !.done = TRUE])
  /\ RunFrame

NextDecode == RunVertexFormat

SpecDecode == InitDecode /\ [][NextDecode]_vars

\* C9: format 8_8_8_8 fetched as signed and normalized decodes the field 0x80
\* (-128) to exactly -1.0 (sign-extend, multiply by 1/127, max with -1.0), not
\* to -128/127, and the field 0x7F to exactly 1.0.
C9_SignedNormalized ==
  (run.done /\ input.attributes.is_signed /\ ~input.attributes.is_integer) =>
    /\ ~run.stuck
    /\ \A i \in 1..4 :
         /\ input.bytes[i] = 128 =>
              /\ run.xe_pv[i] = [m |-> -1, e |-> 0]
              /\ run.xe_pv[i] # FloatMul(FloatFromInt(-128), FloatDiv(1, 127))
         /\ input.bytes[i] = 127 => run.xe_pv[i] = [m |-> 1, e |-> 0]

\* C9 witness: a dword with 0x80 in its lowest and 0x7F in its highest byte
\* has been decoded as signed normalized
C9_Witness ==
  /\ run.done
  /\ input.attributes.is_signed
  /\ ~input.attributes.is_integer
  /\ input.bytes[1] = 128
  /\ input.bytes[4] = 127
  /\ run.xe_pv[1] = [m |-> -1, e |-> 0]
  /\ run.xe_pv[4] = [m |-> 1, e |-> 0]

-----------------------------------------------------------------------------
(* SpecFlow: the dispatch loop of the module text CompleteTranslation returns, *)
(* running the translation of every program of a set under every value of the *)
(* constants the emitted code reads.  One step is one pass of the do-while    *)
(* loop: the switch selects the case of xe_pc, or the default entry, and the  *)
(* statements from there run up to the first break, through any case label   *)
(* on the way.                                                                *)

\* "xe_pc = 0xFFFFu"
kHaltPc == 65535

\* the pieces that open a block
BlockOpeners ==
  {"{\n", "if ((xe_bool_constants[%u] & (1u << %uu)) != 0u) {\n",
   "if ((xe_bool_constants[%u] & (1u << %uu)) == 0u) {\n", "if ( xe_p0) {\n",
   "if (!xe_p0) {\n", "if (xe_loop_count.x == 0u) {\n", " ||  xe_p0) {\n",
   " || !xe_p0) {\n", ") {\n"}

\* the two literal pieces CompleteTranslation appends after the body
EpiloguePiece == "      xe_pc = 0xFFFFu;\n      break;\n"
DefaultPiece ==
  "      default:\n      xe_pc = 0xFFFFu;\n      break;\n    }\n  } while (xe_pc != 0xFFFFu);\n"

\* The statements of text from the i-th on, up to the break that leaves the
\* switch.  skip = 0: running; skip > 0: inside skip blocks of a branch not
\* taken, up to its else (to_else) or only up to its closing brace.  blocks
\* counts the exec and jump blocks entered, stop is the piece the pass ended at.
RECURSIVE RunText(_, _, _, _, _)
RunText(text, i, skip, to_else, st) ==
  IF i > Len(text) THEN [st EXCEPT !.stuck = TRUE]
  ELSE
    LET p == text[i]
        Go(test) == RunText(text, i + 1, IF test THEN 0 ELSE 1, TRUE,
                            [st EXCEPT !.blocks = IF test THEN @ + 1 ELSE @])
    IN CASE skip > 0 /\ p.f \in BlockOpeners ->
              RunText(text, i + 1, skip + 1, to_else, st)
         [] skip > 0 /\ p.f = "}\n" -> RunText(text, i + 1, skip - 1, to_else, st)
         [] skip > 0 /\ p.f = "} else {\n" ->
              RunText(text, i + 1, IF skip = 1 /\ to_else THEN 0 ELSE skip, to_else, st)
         [] skip > 0 /\ p.f \in {EpiloguePiece, DefaultPiece} ->
              [st EXCEPT !.stuck = TRUE]
         [] skip > 0 -> RunText(text, i + 1, skip, to_else, st)
         [] p.f \in {"break;\n", "break;"} -> [st EXCEPT !.stop = i]
         [] p.f = EpiloguePiece ->
              [st EXCEPT !.xe_pc = kHaltPc, !.epilogue = TRUE, !.stop = i]
         [] p.f = DefaultPiece ->
              [st EXCEPT !.xe_pc = kHaltPc, !.defaulted = TRUE, !.stop = i]
         [] p.f \in {"case 0u:\n", "case %uu:\n", "}\n", "// cnop\n",
                     "// Falling through to L%u\n", "// UNIMPLEMENTED TRANSLATION\n"} ->
              RunText(text, i + 1, 0, TRUE, st)
         [] p.f = "} else {\n" -> RunText(text, i + 1, 1, FALSE, st)
         [] p.f = "{\n" -> Go(TRUE)
         [] p.f = "if ((xe_bool_constants[%u] & (1u << %uu)) != 0u) {\n" ->
              Go(<<p.a[1], p.a[2]>> \in st.xe_bool_constants)
         [] p.f = "if ((xe_bool_constants[%u] & (1u << %uu)) == 0u) {\n" ->
              Go(<<p.a[1], p.a[2]>> \notin st.xe_bool_constants)
         [] p.f = "if ( xe_p0) {\n" -> Go(st.xe_p0)
         [] p.f = "if (!xe_p0) {\n" -> Go(~st.xe_p0)
         [] p.f = "if (xe_loop_count.x == 0u) {\n" ->
              RunText(text, i + 1, IF st.xe_loop_count[1] = 0 THEN 0 ELSE 1, TRUE, st)
         [] p.f = "if (--xe_loop_count.x == 0u" ->
              LET count == Dec32(st.xe_loop_count[1])
                  rest == text[i + 1].f
                  taken == \/ count = 0
                           \/ rest = " ||  xe_p0) {\n" /\ st.xe_p0
                           \/ rest = " || !xe_p0) {\n" /\ ~st.xe_p0
              IN RunText(text, i + 2, IF taken THEN 0 ELSE 1, TRUE,
                         [st EXCEPT !.xe_loop_count[1] = count,
                                    !.exits = IF taken THEN @ + 1 ELSE @])
         [] p.f = "xe_pc = 0xFFFFu;\n" ->
              RunText(text, i + 1, 0, TRUE, [st EXCEPT !.xe_pc = kHaltPc])
         [] p.f \in {"xe_pc = %uu;\n", "xe_pc = %uu;  // L%u\n",
                     "  xe_pc = %uu;  // Fallthrough to L%u\n"} ->
              RunText(text, i + 1, 0, TRUE, [st EXCEPT !.xe_pc = p.a[1]])
         [] p.f = "xe_loop_count.yzw = xe_loop_count.xyz;\n" ->
              RunText(text, i + 1, 0, TRUE,
                      ExecStatement(p, [st EXCEPT !.starts = @ + 1]))
         [] OTHER -> RunText(text, i + 1, 0, TRUE, ExecStatement(p, st))

\* where the switch enters the text for a value of xe_pc: after the first
\* case label of that value, at the default entry when there is none
SwitchEntry(text, pc) ==
  LET labels == {i \in DOMAIN text :
                   \/ text[i].f = "case 0u:\n" /\ pc = 0
                   \/ text[i].f = "case %uu:\n" /\ text[i].a = <<pc>>}
  IN IF labels = {}
       THEN CHOOSE i \in DOMAIN text : text[i].f = DefaultPiece
       ELSE 1 + CHOOSE i \in labels : \A j \in labels : i <= j

\* one pass of "do { switch (xe_pc) { ... } } while (xe_pc != 0xFFFFu);"
DispatchStep(text, st) ==
  RunText(text, SwitchEntry(text, st.xe_pc), 0, TRUE,
          [st EXCEPT !.from = st.xe_pc, !.defaulted = FALSE, !.epilogue = FALSE])

\* the text the handlers of one control flow instruction append, for an exec
\* block with no instructions inside
CfText(d, instr) ==
  CASE instr.kind = "exec" ->
         ProcessExecInstructionBeginText(d, instr)
         \o ProcessExecInstructionEndText(d + 2, instr)
    [] instr.kind = "loop_start" -> ProcessLoopStartInstructionText(d, instr)
    [] instr.kind = "loop_end" -> ProcessLoopEndInstructionText(d, instr)
    [] instr.kind = "jump" -> ProcessJumpInstructionText(d, instr)
    [] instr.kind = "alloc" -> ProcessAllocInstructionText(d)
    [] instr.kind = "cnop" -> ProcessControlFlowNopInstructionText(d)

\* The text appended for the instructions k.. of a program, a sequence of
\* [instr, labelled] in address order: ProcessLabel when the address is a
\* label, ProcessControlFlowInstructionBegin, the handler,
\* ProcessControlFlowInstructionEnd.  wrote_pc is cf_wrote_pc_ on entry.
RECURSIVE TranslateFrom(_, _, _)
TranslateFrom(prog, k, wrote_pc) ==
  IF k > Len(prog) THEN <<>>
  ELSE LET instr == prog[k].instr
           flag == SetsWrotePc(instr)
       IN (IF prog[k].labelled THEN ProcessLabelText(6, k - 1, wrote_pc) ELSE <<>>)
          \o CfText(6, instr)
          \o ProcessControlFlowInstructionEndText(6, k - 1, flag)
          \o TranslateFrom(prog, k + 1, flag)

\* source_inner_ after the first k instructions of a program
BodyText(prog, k) == StartTranslationText(6) \o TranslateFrom(SubSeq(prog, 1, k), 1, FALSE)

\* cf_wrote_pc_ after the first k instructions of a program
WrotePcAfter(prog, k) == k > 0 /\ SetsWrotePc(prog[k].instr)

\* the history of the translation of a program
HistoryOf(prog) ==
  [k \in DOMAIN prog |->
     LET from == Len(BodyText(prog, k - 1))
                 + (IF prog[k].labelled
                      THEN Len(ProcessLabelText(6, k - 1, WrotePcAfter(prog, k - 1)))
                      ELSE 0)
     IN [instr |-> prog[k].instr, labelled |-> prog[k].labelled,
         wrote_pc |-> SetsWrotePc(prog[k].instr), from |-> from,
         to |-> from + Len(CfText(6, prog[k].instr))]]

\* the translator after Reset, StartTranslation, the handlers of a program and
\* CompleteTranslation
Translated(prog, is_vertex_shader) ==
  LET n == Len(prog)
      execs == {k \in DOMAIN prog : prog[k].instr.kind = "exec"}
      preds == {k \in execs : prog[k].instr.type = "kPredicated"}
      Last(S) == CHOOSE k \in S : \A j \in S : j <= k
  IN /\ source_inner_ = BodyText(prog, n)
     /\ depth_ = 6
     /\ cf_wrote_pc_ = WrotePcAfter(prog, n)
     /\ cf_exec_pred_ = (execs # {} /\ Last(execs) \in preds)
     /\ cf_exec_pred_cond_ = (preds # {} /\ prog[Last(preds)].instr.condition)
     /\ writes_depth_ = FALSE
     /\ srv_bindings_ = <<>>
     /\ sampler_count_ = 0
     /\ sampler_fetch_constants_ = <<>>
     /\ cube_used_ = FALSE
     /\ errors_ = <<>>
     /\ phase = "done"
     /\ pos = "label"
     /\ cf_index = n
     /\ labelled = FALSE
     /\ mark = IF n = 0 THEN 0 ELSE HistoryOf(prog)[n].from
     /\ cur = IF n = 0 THEN NoCf ELSE prog[n].instr
     /\ alu = NoInstr
     /\ ninstr = n
     /\ source = CompleteTranslationText(BodyText(prog, n), WrotePcAfter(prog, n),
                                         FALSE, FALSE, is_vertex_shader, 2)
     /\ call = Call("CompleteTranslation", <<>>, -1)
     /\ history = HistoryOf(prog)

\* Under Spec: a finished translation whose exec blocks are empty and that has
\* no call or return is the state Translated describes.
TranslatedIsReached ==
  (/\ phase = "done"
   /\ ninstr = Len(history)
   /\ \A k \in DOMAIN history : history[k].instr.kind \notin {"call", "return"}) =>
    \E is_vertex_shader \in BOOLEAN :
      Translated([k \in DOMAIN history |->
                    [instr |-> history[k].instr, labelled |-> history[k].labelled]],
                 is_vertex_shader)

\* the largest value of the count field of a loop constant ("& 0xFFu")
kLoopCountMax == 255

Entry(instr, is_label) == [instr |-> instr, labelled |-> is_label]

\* the jumps of the flow programs: to the next address and past the end of the
\* program, where no case label exists
FlowJumps ==
  {[CfInstr("jump", 0) EXCEPT !.type = t[1], !.condition = t[2],
                              !.bool_constant_index = t[3], !.target_address = a] :
     t \in {<<"kUnconditional", FALSE, 0>>, <<"kConditional", TRUE, 40>>,
            <<"kPredicated", TRUE, 0>>, <<"kPredicated", FALSE, 0>>},
     a \in {1, 5}}

FlowFirst == ExecInstrs(0) \cup FlowJumps \cup {CfInstr("cnop", 0), CfInstr("alloc", 0)}

FlowSecond ==
  {CfInstr("cnop", 1), [CfInstr("exec", 1) EXCEPT !.is_end = TRUE],
   [CfInstr("exec", 1) EXCEPT !.type = "kPredicated"]}

\* loop start at 0, the loop body (an exec block) at 1, loop end at 2
LoopFlow(is_repeat) ==
  <<Entry([CfInstr("loop_start", 0) EXCEPT !.is_repeat = is_repeat,
                                           !.loop_skip_address = 3], FALSE),
    Entry(CfInstr("exec", 1), TRUE),
    Entry([CfInstr("loop_end", 2) EXCEPT !.loop_body_address = 1], FALSE)>>

\* the exec block that ends the program, at the address after the loop
AfterLoop == Entry([CfInstr("exec", 3) EXCEPT !.is_end = TRUE], TRUE)

FlowPrograms ==
  {<<Entry(f, l)>> : f \in FlowFirst, l \in BOOLEAN}
  \cup {<<Entry(f, FALSE), Entry(g, l)>> : f \in FlowFirst, g \in FlowSecond,
                                           l \in BOOLEAN}

LoopPrograms ==
  {LoopFlow(r) : r \in BOOLEAN} \cup {LoopFlow(r) \o <<AfterLoop>> : r \in BOOLEAN}

\* loop constants count | start << 8 | step << 16 with start 5: every count
\* with step 1, and the smallest and the largest counts with steps 1 and -1
FlowLoopConstants == {c + 5 * 256 + 65536 : c \in 0..kLoopCountMax}
EdgeLoopConstants ==
  {c + 5 * 256 + step * 65536 : c \in {0, 1, 2, kLoopCountMax}, step \in {1, 255}}

\* bit 8 of xe_bool_constants[1] is boolean constant 40
FlowBoolConstants == SUBSET {<<1, 8>>}

\* the shader's variables as CompleteTranslation declares them (lines 287-295)
Declared(bools, constant) ==
  [xe_aL |-> <<0, 0, 0, 0>>, xe_loop_count |-> <<0, 0, 0, 0>>, xe_pc |-> 0,
   xe_p0 |-> FALSE, xe_bool_constants |-> bools,
   xe_loop_constants |-> [i \in 1..kLoopStackDepth |-> constant],
   stuck |-> FALSE, starts |-> 0, exits |-> 0, blocks |-> 0, from |-> 0,
   defaulted |-> FALSE, epilogue |-> FALSE, passes |-> 0, stop |-> 0]

InitFlow ==
  /\ input \in [op : {"flow"}, prog : FlowPrograms, bools : FlowBoolConstants,
                constant : {5 * 256}, is_vertex_shader : BOOLEAN]
            \cup [op : {"flow"}, prog : {LoopFlow(FALSE) \o <<AfterLoop>>},
                  bools : {{}}, constant : FlowLoopConstants,
                  is_vertex_shader : {TRUE}]
            \cup [op : {"flow"}, prog : LoopPrograms, bools : {{}},
                  constant : EdgeLoopConstants, is_vertex_shader : {TRUE}]
  /\ Translated(input.prog, input.is_vertex_shader)
  /\ run = Declared(input.bools, input.constant)

\* one pass of the do-while loop; its condition ends the loop at 0xFFFF
Dispatch ==
  /\ phase = "done"
  /\ run.passes = 0 \/ run.xe_pc # kHaltPc
  /\ run' = DispatchStep(source, [run EXCEPT !.passes = IF @ = 0 THEN 1 ELSE @])
  /\ RunFrame

NextFlow == Dispatch

SpecFlow == InitFlow /\ [][NextFlow]_vars

\* the address a case label names
LabelAddress(p) == IF p.f = "case 0u:\n" THEN 0 ELSE p.a[1]

\* C12: the dispatch loop starts with xe_pc = 0, makes another pass only
\* while xe_pc differs from 0xFFFF (no pass starts from 0xFFFF), and a value of
\* xe_pc that has no case label is sent by the default entry to 0xFFFF within
\* that pass.  No case label
\* names 0xFFFF and no address has two case labels: case 0 comes from
\* StartTranslation only.
C12_DispatchLoop ==
  /\ Count(source, "  uint xe_pc = 0u;\n", <<>>) = 1
  /\ Count(source, "  do {\n", <<>>) = 1
  /\ Count(source, DefaultPiece, <<>>) = 1
  /\ run.passes = 0 => run.xe_pc = 0
  /\ run.passes > 0 => run.from # kHaltPc
  /\ \A i \in CaseLabels(source) :
       /\ LabelAddress(source[i]) # kHaltPc
       /\ \A j \in CaseLabels(source) :
            LabelAddress(source[i]) = LabelAddress(source[j]) => i = j
  /\ Count(source, "case 0u:\n", <<>>) = 1
  /\ Count(source, "case %uu:\n", <<0>>) = 0
  /\ run.passes > 0 =>
       /\ ~run.stuck
       /\ run.defaulted => run.xe_pc = kHaltPc
       /\ (\A i \in CaseLabels(source) : LabelAddress(source[i]) # run.from) =>
            run.defaulted /\ run.xe_pc = kHaltPc

\* C12 witness: a jump to address 5 of a one-instruction program was taken,
\* and the next pass went through the default entry and stopped the loop
C12_Witness ==
  /\ Len(input.prog) = 1
  /\ input.prog[1].instr.kind = "jump"
  /\ input.prog[1].labelled
  /\ run.passes > 0
  /\ run.from = 5
  /\ run.defaulted
  /\ run.xe_pc = kHaltPc

-----------------------------------------------------------------------------
(* SpecReset: an instance that has translated a one-exec stream, and holds    *)
(* bindings and samplers, is reset and translates the same stream again.      *)

\* cf_exec_pred_ before the i-th instruction of an exec block
RECURSIVE ExecPredBefore(_, _, _)
ExecPredBefore(exec, prior, i) ==
  IF i = 1 THEN exec.type = "kPredicated"
  ELSE AluExecPred(prior[i - 1], ExecPredBefore(exec, prior, i - 1))

\* The translator after Reset, StartTranslation, the handlers of the exec block
\* at address 0 holding the ALU instructions of prior, and CompleteTranslation.
AfterTranslation(exec, prior, is_vertex_shader) ==
  LET cond == exec.type = "kPredicated" /\ exec.condition
      Text(i) == ProcessAluInstructionText(8, prior[i], ExecPredBefore(exec, prior, i),
                                           cond)
      code == ProcessExecInstructionBeginText(6, exec)
              \o Flatten([i \in DOMAIN prior |-> Text(i)])
              \o ProcessExecInstructionEndText(8, exec)
      inner == StartTranslationText(6) \o code
               \o ProcessControlFlowInstructionEndText(6, 0, exec.is_end)
      depth == \E i \in DOMAIN prior : StoreResultWritesDepth(prior[i].result)
      cube == \E i \in DOMAIN prior : AluCubeUsed(prior[i], FALSE)
  IN /\ source_inner_ = inner
     /\ depth_ = 6
     /\ cf_wrote_pc_ = exec.is_end
     /\ cf_exec_pred_ = ExecPredBefore(exec, prior, Len(prior) + 1)
     /\ cf_exec_pred_cond_ = cond
     /\ writes_depth_ = depth
     /\ cube_used_ = cube
     /\ errors_ = <<>>
     /\ phase = "done"
     /\ pos = "label"
     /\ cf_index = 1
     /\ labelled = FALSE
     /\ mark = 1
     /\ cur = exec
     /\ alu = IF prior = <<>> THEN NoInstr ELSE prior[Len(prior)]
     /\ ninstr = 1 + Len(prior)
     /\ source = CompleteTranslationText(inner, exec.is_end, cube, depth,
                                         is_vertex_shader, 2)
     /\ call = Call("CompleteTranslation", <<>>, -1)
     /\ history = <<[instr |-> exec, labelled |-> FALSE, wrote_pc |-> exec.is_end,
                     from |-> 1, to |-> 1 + Len(code)]>>

\* Under Spec: a finished translation of one unlabelled exec block holding
\* ALU instructions only is the state AfterTranslation describes.
AfterTranslationIsReached ==
  (/\ phase = "done"
   /\ Len(history) = 1
   /\ history[1].instr.kind = "exec"
   /\ ~history[1].labelled
   /\ ninstr > 1 => alu.kind = "alu") =>
    \E is_vertex_shader \in BOOLEAN :
      AfterTranslation(history[1].instr, IF ninstr > 1 THEN <<alu>> ELSE <<>>,
                       is_vertex_shader)

\* the ALU instructions of the exec block: at most MaxInstr - 1 of them
ResetPriors ==
  UNION {[1..n -> AluInstrs] : n \in 0..(MaxInstr - 1)}

\* binding tables an earlier translation left behind
ResetBindings ==
  {<<>>, <<[type |-> "kind_a", fetch_constant |-> 0]>>,
   <<[type |-> "kind_a", fetch_constant |-> 0],
     [type |-> "kind_b", fetch_constant |-> 1]>>}

\* sampler count and sampler array an earlier translation left behind; the
\* array keeps its slots across Reset
ResetSamplers == {<<0, <<>>>>, <<0, <<31>>>>, <<1, <<0>>>>, <<2, <<0, 31>>>>}

InitReset ==
  /\ input \in [op : {"reset"}, exec : ExecInstrs(0), prior : ResetPriors,
                is_vertex_shader : BOOLEAN, bindings : ResetBindings,
                samplers : ResetSamplers]
  /\ AfterTranslation(input.exec, input.prior, input.is_vertex_shader)
  /\ srv_bindings_ = input.bindings
  /\ sampler_count_ = input.samplers[1]
  /\ sampler_fetch_constants_ = input.samplers[2]
  /\ run = NoRun

\* Reset, then the handlers of the same stream in the driver's order
NextReset ==
  \/ Reset
  \/ StartTranslation
  \/ cf_index = 0 /\ ProcessControlFlowInstructionBegin
  \/ ProcessExecInstructionBegin(input.exec)
  \/ /\ ninstr \in DOMAIN input.prior
     /\ ProcessAluInstruction(input.prior[ninstr])
  \/ ninstr = 1 + Len(input.prior) /\ ProcessExecInstructionEnd
  \/ ProcessControlFlowInstructionEnd
  \/ cf_index = 1 /\ CompleteTranslation(input.is_vertex_shader, 2)

SpecReset == InitReset /\ [][NextReset]_vars

\* C13: after Reset the body text, the nesting depth, the wrote-pc flag, the
\* exec predicate flag and polarity, the depth-written flag, the SRV binding
\* table, the sampler count and the cube-used flag have their initial values
\* whatever ran before; so the same stream translated again on the instance
\* leaves the translator as the first translation did, with the same text, and
\* with the binding tables of a translation that requested no binding.
C13_ResetPure ==
  /\ call.op = "Reset" =>
       /\ source_inner_ = <<>>
       /\ depth_ = 0
       /\ ~cf_wrote_pc_
       /\ ~cf_exec_pred_
       /\ ~cf_exec_pred_cond_
       /\ ~writes_depth_
       /\ srv_bindings_ = <<>>
       /\ sampler_count_ = 0
       /\ ~cube_used_
       /\ errors_ = <<>>
  /\ phase = "done" =>
       /\ AfterTranslation(input.exec, input.prior, input.is_vertex_shader)
       /\ \/ srv_bindings_ = <<>> /\ sampler_count_ = 0
          \/ /\ srv_bindings_ = input.bindings
             /\ sampler_count_ = input.samplers[1]
             /\ sampler_fetch_constants_ = input.samplers[2]

\* C13 witness: an instance that held two bindings and two samplers and had
\* translated a predicated final exec block using the cube instruction was
\* reset and has translated the block again
C13_Witness ==
  /\ phase = "done"
  /\ Len(input.bindings) = 2
  /\ input.samplers[1] = 2
  /\ input.exec.type = "kPredicated"
  /\ input.exec.is_end
  /\ srv_bindings_ = <<>>
  /\ sampler_count_ = 0
  /\ sampler_fetch_constants_ = <<0, 31>>
  /\ cube_used_
  /\ cf_wrote_pc_
  /\ AfterTranslation(input.exec, input.prior, input.is_vertex_shader)

\* C14 and the following claims run the emitted text under SpecFlow.

\* the number of pieces of the module text before the translated body
InnerOffset == CHOOSE i \in DOMAIN source : source[i].f = "    switch (xe_pc) {\n"

\* the last pass entered the code of the k-th instruction at its case label
EnteredAt(k) ==
  /\ run.passes > 0
  /\ run.from = history[k].instr.dword_index
  /\ k = 1 \/ history[k].labelled

\* the last pass ended at a break inside the code of the k-th instruction
LeftWithin(k) == run.stop <= InnerOffset + history[k].to

\* C14 (as stated): after the code of an exec block flagged end-of-program has
\* run, xe_pc is 0xFFFF, for the three exec kinds and whether or not the guard
\* holds; and whenever an instruction's handler left cf_wrote_pc_ true, every
\* path through the instruction's code assigns xe_pc and leaves the case
\* inside that code, without reaching what follows it.
C14_AsStated ==
  \A k \in DOMAIN history :
    (EnteredAt(k) /\ history[k].wrote_pc) =>
      /\ LeftWithin(k)
      /\ (history[k].instr.kind = "exec" /\ history[k].instr.is_end) =>
           run.xe_pc = kHaltPc

\* the state C14 fails in: a predicated exec block flagged end-of-program was
\* skipped because xe_p0 is false, and the same pass went on into the exec
\* block of the next address and entered it
C14_RunsPastEnd ==
  /\ Len(history) = 2
  /\ history[1].instr.kind = "exec"
  /\ history[1].instr.is_end
  /\ history[1].instr.type = "kPredicated"
  /\ history[1].wrote_pc
  /\ history[2].instr.kind = "exec"
  /\ EnteredAt(1)
  /\ ~LeftWithin(1)
  /\ run.blocks = 1

-----------------------------------------------------------------------------
(* SpecLoop: the code emitted for one loop start, or for one loop end, run    *)
(* once from every shader state of a set.                                     *)

\* the loop start at address 2 and the loop end at address 7 of a loop whose
\* body starts at address 3, both reading loop constant 1
UnitLoopStart(is_repeat) ==
  [CfInstr("loop_start", 2) EXCEPT !.loop_constant_index = 1, !.is_repeat = is_repeat,
                                   !.loop_skip_address = 8]

UnitLoopEnd(is_predicated_break, predicate_condition) ==
  [CfInstr("loop_end", 7) EXCEPT !.loop_constant_index = 1, !.loop_body_address = 3,
                                 !.is_predicated_break = is_predicated_break,
                                 !.predicate_condition = predicate_condition]

\* loop constants count | start << 8 | step << 16 | 1 << 24
UnitStartConstants ==
  {c + a * 256 + s * 65536 + 16777216 : c \in {0, 1, kLoopCountMax}, a \in {0, 5, 255},
                                        s \in {0, 255}}

UnitEndConstants == {3 + 5 * 256 + s * 65536 + 16777216 : s \in 0..255}

\* the loop count stack at a loop end: active counts 0 (wraps), 1 (last
\* iteration), 2 and 255
UnitEndCounts == {<<c, 7, 8, 9>> : c \in {0, 1, 2, kLoopCountMax}}

UnitEndIndices == {<<-5, -4, -3, -2>>, <<127, 0, 0, 0>>}

UnitShaderState(aL, loop_count, p0, constant) ==
  [xe_aL |-> aL, xe_loop_count |-> loop_count, xe_pc |-> 0, xe_p0 |-> p0,
   xe_loop_constants |-> <<0, constant, 0, 0>>, stuck |-> FALSE, starts |-> 0,
   exits |-> 0, done |-> FALSE]

InitLoop ==
  /\ Constructed
  /\ input \in [op : {"loop_start"}, is_repeat : BOOLEAN,
                is_predicated_break : {FALSE}, predicate_condition : {FALSE},
                constant : UnitStartConstants, xe_aL : StackContents(-5),
                xe_loop_count : StackContents(7), xe_p0 : {FALSE}]
            \cup [op : {"loop_end"}, is_repeat : {FALSE},
                  is_predicated_break : BOOLEAN, predicate_condition : BOOLEAN,
                  constant : UnitEndConstants, xe_aL : UnitEndIndices,
                  xe_loop_count : UnitEndCounts, xe_p0 : BOOLEAN]
  /\ run = UnitShaderState(input.xe_aL, input.xe_loop_count, input.xe_p0,
                           input.constant)

RunUnitLoopStart ==
  /\ input.op = "loop_start" /\ ~run.done
  /\ run' = ExecCase(ProcessLoopStartInstructionText(6, UnitLoopStart(input.is_repeat)),
                     [run EXCEPT !.done = TRUE])
  /\ RunFrame

RunUnitLoopEnd ==
  /\ input.op = "loop_end" /\ ~run.done
  /\ run' = ExecCase(ProcessLoopEndInstructionText(
                       6, UnitLoopEnd(input.is_predicated_break,
                                      input.predicate_condition)),
                     [run EXCEPT !.done = TRUE])
  /\ RunFrame

NextLoop == RunUnitLoopStart \/ RunUnitLoopEnd

SpecLoop == InitLoop /\ [][NextLoop]_vars

\* the fields of a loop constant
CountField(constant) == constant % 256
StartField(constant) == (constant \div 256) % 256
StepField(constant) ==
  LET byte == (constant \div 65536) % 256 IN IF byte < 128 THEN byte ELSE byte - 256

\* a stack shifted down by one, the vacated last entry set to 0
Popped(stack) == <<stack[2], stack[3], stack[4], 0>>

\* a stack shifted up by one under a new first entry, the fourth discarded
Pushed(first, stack) == <<first, stack[1], stack[2], stack[3]>>

\* C15: the loop end code first decrements xe_loop_count.x as a 32-bit
\* unsigned value (0 wraps to 0xFFFFFFFF, written -1).  It exits, popping both
\* stacks with 0 in the vacated last entry and setting xe_pc to
\* dword_index + 1, exactly when the decremented count is 0 or, for a
\* predicated break, xe_p0 equals the polarity; otherwise it keeps the other
\* entries, adds the signed byte in bits 16..23 of the loop constant (-128 to
\* 127) to xe_aL.x and sets xe_pc to the loop body address.
C15_LoopEnd ==
  (run.done /\ input.op = "loop_end") =>
    LET count == IF input.xe_loop_count[1] = 0 THEN -1 ELSE input.xe_loop_count[1] - 1
        exit == \/ count = 0
                \/ input.is_predicated_break
                   /\ input.xe_p0 = input.predicate_condition
        step == StepField(input.constant)
    IN /\ ~run.stuck
       /\ step \in -128..127
       /\ run.exits = IF exit THEN 1 ELSE 0
       /\ exit => /\ run.xe_loop_count = Popped(input.xe_loop_count)
                  /\ run.xe_aL = Popped(input.xe_aL)
                  /\ run.xe_pc = 7 + 1
       /\ ~exit => /\ run.xe_loop_count = [input.xe_loop_count EXCEPT ![1] = count]
                   /\ run.xe_aL = [input.xe_aL EXCEPT ![1] = @ + step]
                   /\ run.xe_pc = 3

\* C15 witness: a loop end with a predicated break not taken has gone back to
\* the body with step -128 after its count wrapped from 0
C15_Witness ==
  /\ run.done
  /\ input.op = "loop_end"
  /\ input.is_predicated_break
  /\ input.xe_loop_count[1] = 0
  /\ run.xe_loop_count[1] = -1
  /\ StepField(input.constant) = -128
  /\ run.xe_aL = <<-133, -4, -3, -2>>
  /\ run.xe_pc = 3

\* C16: the loop start code shifts both stacks up by one, discarding the
\* fourth entries; the new active count is bits 0..7 of the loop constant in
\* both forms; the new active index is bits 8..15 of the loop constant in the
\* normal form and the enclosing loop's active index in the repeat form; xe_pc
\* becomes the loop skip address when the active count is 0 and the address of
\* the loop body, dword_index + 1, otherwise.
C16_LoopStart ==
  (run.done /\ input.op = "loop_start") =>
    LET count == CountField(input.constant)
        index == IF input.is_repeat THEN input.xe_aL[1] ELSE StartField(input.constant)
    IN /\ ~run.stuck
       /\ run.xe_loop_count = Pushed(count, input.xe_loop_count)
       /\ run.xe_aL = Pushed(index, input.xe_aL)
       /\ run.xe_pc = IF count = 0 THEN 8 ELSE 2 + 1

\* C16 witness: a repeat loop start with count 255 has pushed onto full
\* stacks, keeping the enclosing loop's index -5
C16_Witness ==
  /\ run.done
  /\ input.op = "loop_start"
  /\ input.is_repeat
  /\ input.xe_aL = <<-5, -4, -3, -2>>
  /\ CountField(input.constant) = 255
  /\ StartField(input.constant) = 255
  /\ run.xe_aL = <<-5, -5, -4, -3>>
  /\ run.xe_loop_count = <<255, 7, 8, 9>>
  /\ run.xe_pc = 3

-----------------------------------------------------------------------------
(* Loops in the dispatch loop (SpecFlow): the programs LoopFlow, whose loop   *)
(* start is at address 0, body at 1, loop end at 2 and skip address 3.        *)

LoopRun == input.op = "flow" /\ Len(input.prog) >= 3

\* a pass has ended with xe_pc at the instruction after the loop end
ArrivedAfterLoop == LoopRun /\ run.passes > 0 /\ run.xe_pc = 2 + 1

\* C17 as stated: on arrival at the instruction after the loop end, also when
\* the loop start found count 0 and went to the skip address, both stacks hold
\* what they held before the loop start.
C17_AsStated ==
  ArrivedAfterLoop =>
    /\ run.xe_aL = Declared(input.bools, input.constant).xe_aL
    /\ run.xe_loop_count = Declared(input.bools, input.constant).xe_loop_count

\* C17, the failing state: a loop start in the normal form found count 0, went
\* to the skip address and left the index it pushed on the stack
C17_SkipLeavesEntry ==
  /\ ArrivedAfterLoop
  /\ CountField(input.constant) = 0
  /\ run.from = 0
  /\ run.starts = 1
  /\ run.exits = 0
  /\ run.xe_aL = <<5, 0, 0, 0>>

\* the counts of a loop run: while xe_pc is at the body the body has run fewer
\* than c times and xe_loop_count.x holds the runs left; the counter reaches
\* the address after the loop end when the body has run c times, straight
\* from the loop start exactly when c = 0; nothing else is reached
C18_Counts ==
  (LoopRun /\ run.passes > 0) =>
    LET c == CountField(input.constant)
    IN /\ ~run.stuck
       /\ run.xe_pc \in {1, 3, kHaltPc}
       /\ run.xe_pc = 1 => /\ run.blocks < c
                           /\ run.xe_loop_count[1] = c - run.blocks
       /\ run.xe_pc = 3 => /\ run.blocks = c
                           /\ run.from = (IF c = 0 THEN 0 ELSE 1)
                           /\ run.exits = (IF c = 0 THEN 0 ELSE 1)
       /\ run.xe_pc = kHaltPc =>
            run.blocks = c + (IF Len(input.prog) = 4 THEN 1 ELSE 0)

\* what bounds the passes still to come: runs of the body left, then the
\* instruction after the loop, then nothing
PassesLeft(st, c) ==
  IF st.passes = 0 THEN c + 3
  ELSE IF st.xe_pc = 1 THEN c - st.blocks + 2
  ELSE IF st.xe_pc = 3 THEN 1
  ELSE 0

\* C18: a loop whose constant has count c in 1..255, with no predicated break
\* and a body without control transfers, runs its body exactly c times and
\* then sets xe_pc to the loop end's dword_index + 1; with c = 0 the body runs
\* zero times; the dispatch loop terminates, every pass leaving fewer passes
\* to come.
C18_LoopRuns ==
  [][/\ C18_Counts'
     /\ LoopRun => /\ PassesLeft(run', CountField(input.constant)) >= 0
                   /\ PassesLeft(run', CountField(input.constant))
                        < PassesLeft(run, CountField(input.constant))]_vars

\* C18 witness: the body has run 255 times and the loop end has moved xe_pc to
\* the address after it
C18_Witness ==
  /\ ArrivedAfterLoop
  /\ CountField(input.constant) = kLoopCountMax
  /\ run.from = 1
  /\ run.blocks = kLoopCountMax

-----------------------------------------------------------------------------
(* SpecPred: MaxInstr ALU and fetch instructions translated inside an exec    *)
(* block of each kind.                                                        *)

\* The translator inside the exec block exec at address 0, right after
\* ProcessExecInstructionBegin.
InExecBlockOf(exec) ==
  LET begin == ProcessExecInstructionBeginText(6, exec)
  IN /\ source_inner_ = StartTranslationText(6) \o begin
     /\ depth_ = 8
     /\ cf_wrote_pc_ = FALSE
     /\ cf_exec_pred_ = (exec.type = "kPredicated")
     /\ cf_exec_pred_cond_ = (exec.type = "kPredicated" /\ exec.condition)
     /\ writes_depth_ = FALSE
     /\ srv_bindings_ = <<>>
     /\ sampler_count_ = 0
     /\ sampler_fetch_constants_ = <<>>
     /\ cube_used_ = FALSE
     /\ errors_ = <<>>
     /\ phase = "translating"
     /\ pos = "exec"
     /\ cf_index = 0
     /\ labelled = FALSE
     /\ mark = 1
     /\ cur = exec
     /\ alu = NoInstr
     /\ ninstr = 0
     /\ source = <<>>
     /\ call = Call("ProcessExecInstructionBegin", begin, -1)
     /\ history = <<>>
     /\ run = NoRun

\* a vertex fetch with its fetch constant operand, and one without
WellFormedVertexFetch == CHOOSE i \in VertexFetchInstrs : VertexFetchWellFormed(i)
MalformedVertexFetch == CHOOSE i \in VertexFetchInstrs : ~VertexFetchWellFormed(i)

\* predicated instructions of every handler and both polarities, opcodes that
\* set the predicate (predicated or not), and a predicated no-op
PredInstrs ==
  {Instr("alu", "kVector", "kAdd", "kAdds", TRUE, c, <<Register(0), Register(1)>>,
         WriteRegister(0), NoAttributes) : c \in BOOLEAN}
  \cup {Instr("alu", "kVector", "kSetpEqPush", "kAdds", p, TRUE,
              <<Register(0), Register(1)>>, WriteRegister(1), NoAttributes) :
          p \in BOOLEAN}
  \cup {Instr("alu", "kScalar", "kAdd", "kSetpInv", TRUE, FALSE, <<Register(0)>>,
              WriteRegister(0), NoAttributes),
        Instr("alu", "kScalar", "kSetpEqPush", "kAdds", TRUE, TRUE, <<Register(0)>>,
              WriteRegister(0), NoAttributes),
        Instr("alu", "kNop", "kAdd", "kAdds", TRUE, TRUE, <<>>, WriteRegister(0),
              NoAttributes),
        [WellFormedVertexFetch EXCEPT !.is_predicated = TRUE,
                                      !.predicate_condition = TRUE],
        [MalformedVertexFetch EXCEPT !.is_predicated = TRUE]}
  \cup {Instr("tfetch", "kNop", "kAdd", "kAdds", TRUE, c, <<Register(0)>>,
              WriteRegister(0), NoAttributes) : c \in BOOLEAN}

InitPred ==
  /\ input \in [op : {"predicated"}, exec : ExecInstrs(0),
                instrs : [1..MaxInstr -> PredInstrs]]
  /\ InExecBlockOf(input.exec)

\* the handler of the next instruction of the block
NextPred ==
  /\ ninstr < MaxInstr
  /\ LET instr == input.instrs[ninstr + 1]
     IN \/ instr.kind = "alu" /\ ProcessAluInstruction(instr)
        \/ instr.kind = "vfetch" /\ ProcessVertexFetchInstruction(instr)
        \/ instr.kind = "tfetch" /\ ProcessTextureFetchInstruction(instr)

SpecPred == InitPred /\ [][NextPred]_vars

\* the opcode this instruction runs sets the predicate
IsSetp(instr) ==
  /\ instr.kind = "alu"
  /\ \/ instr.type = "kVector" /\ instr.vector_opcode \in VectorSetpOpcodes
     \/ instr.type = "kScalar" /\ instr.scalar_opcode \in ScalarSetpOpcodes

\* the statements that assign xe_p0 (lines 1153-1349)
PredicateAssignments ==
  {"xe_p0 = xe_src0.w == 0.0 && xe_src1.w == 0.0;\n",
   "xe_p0 = xe_src0.w == 0.0 && xe_src1.w != 0.0;\n",
   "xe_p0 = xe_src0.w == 0.0 && xe_src1.w > 0.0;\n",
   "xe_p0 = xe_src0.w == 0.0 && xe_src1.w >= 0.0;\n",
   "xe_p0 = xe_src0.x == 0.0;\n", "xe_p0 = xe_src0.x != 0.0;\n",
   "xe_p0 = xe_src0.x > 0.0;\n", "xe_p0 = xe_src0.x >= 0.0;\n",
   "xe_p0 = xe_src0.x == 1.0;\n", "xe_p0 = xe_ps == 0.0;\n",
   "xe_p0 = XE_FLT_MAX;\n", "xe_p0 = src0.x == 0.0;\n"}

\* the k-th instruction lies in a predicate-conditional exec block of its
\* polarity and no earlier instruction of the block sets the predicate
Covered(k) ==
  /\ input.exec.type = "kPredicated"
  /\ input.exec.condition = input.instrs[k].predicate_condition
  /\ \A j \in 1..(k - 1) : ~IsSetp(input.instrs[j])

\* body is one guard block at depth d: the test first, its closing brace last,
\* operand loads, opcode statements and the result write in between, one level
\* deeper
Guarded(body, d, condition) ==
  /\ Len(body) > 2
  /\ body[1] = PredicateTest(d, condition)
  /\ body[Len(body)] = Line(d, "}\n", <<>>)
  /\ \A i \in 2..(Len(body) - 1) : body[i].d \in {-1, d + 2}

\* C19: a predicated ALU or fetch instruction that emits statements has them
\* inside its own guard, opened before the operand loads and closed after the
\* result write, unless it lies in a predicate-conditional exec block of its
\* polarity with no predicate-setting opcode emitted since the block opened;
\* when it is emitted unguarded, the enclosing block was opened by the test of
\* xe_p0 against its polarity and no statement since has assigned xe_p0.  (A
\* no-op and a vertex fetch without its fetch constant emit no statement and
\* no guard.)
C19_PredicateGuard ==
  (ninstr >= 1 /\ input.instrs[ninstr].is_predicated) =>
    LET instr == input.instrs[ninstr]
        text == call.emitted
        body == SubSeq(text, 3, Len(text))
        before == SubSeq(source_inner_, mark + 1, Len(source_inner_) - Len(text))
        silent == \/ instr.kind = "alu" /\ instr.type = "kNop"
                  \/ instr.kind = "vfetch" /\ ~VertexFetchWellFormed(instr)
    IN /\ silent <=> body = <<>>
       /\ (~silent /\ ~Covered(ninstr)) => Guarded(body, 8, instr.predicate_condition)
       /\ (~silent /\ ~Guarded(body, 8, instr.predicate_condition)) =>
            /\ Covered(ninstr)
            /\ before[3] = PredicateTest(6, instr.predicate_condition)
            /\ \A i \in DOMAIN before : before[i].f \notin PredicateAssignments
            /\ \A i \in DOMAIN body : body[i].d \in {-1, 8}

\* C19 witness: in a block predicated on xe_p0, a predicated setp of the
\* block's polarity was emitted unguarded, and the predicated add that follows
\* it, of the same polarity, got its own guard
C19_Witness ==
  /\ ninstr = 2
  /\ input.exec.type = "kPredicated" /\ input.exec.condition
  /\ input.instrs[1].is_predicated /\ input.instrs[1].predicate_condition
  /\ input.instrs[1].vector_opcode = "kSetpEqPush" /\ input.instrs[1].type = "kVector"
  /\ source_inner_[7] # PredicateTest(8, TRUE)
  /\ input.instrs[2].is_predicated /\ input.instrs[2].predicate_condition
  /\ input.instrs[2].vector_opcode = "kAdd" /\ input.instrs[2].type = "kVector"
  /\ call.op = "ProcessAluInstruction"
  /\ Guarded(SubSeq(call.emitted, 3, Len(call.emitted)), 8, TRUE)

-----------------------------------------------------------------------------
(* SpecIndex: one operand load translated, and its statements run with every  *)
(* address register and loop index of a set.                                  *)

\* a 32-bit value as two 16-bit halves
Word(v) == [hi |-> (v \div 65536) % 65536, lo |-> v % 65536]

\* x + y on 32 bits, the carry out of bit 31 dropped
AddWord(x, y) ==
  [hi |-> (x.hi + y.hi + (x.lo + y.lo) \div 65536) % 65536,
   lo |-> (x.lo + y.lo) % 65536]

\* x & y, bit by bit
RECURSIVE BitAnd(_, _)
BitAnd(x, y) ==
  IF x = 0 \/ y = 0 THEN 0
  ELSE (x % 2) * (y % 2) + 2 * BitAnd(x \div 2, y \div 2)

\* uint(index + a) & mask, as a number
MaskedIndex(index, a, mask) ==
  LET sum == AddWord(Word(index), Word(a))
  IN BitAnd(sum.hi, Word(mask).hi) * 65536 + BitAnd(sum.lo, Word(mask).lo)

\* the statements of an operand load, run: xe_src_index as assigned, and the
\* element the load expression reads
RECURSIVE ExecLoad(_, _, _)
ExecLoad(text, i, st) ==
  IF i > Len(text) THEN st
  ELSE
    LET p == text[i]
        index == st.xe_src_index
    IN ExecLoad(text, i + 1,
         CASE p.f = "xe_src_index = uint(%u + xe_a0) & %uu;\n" ->
                [st EXCEPT !.xe_src_index = MaskedIndex(p.a[1], st.xe_a0, p.a[2])]
           [] p.f = "xe_src_index = uint(%u + xe_aL.x) & %uu;\n" ->
                [st EXCEPT !.xe_src_index = MaskedIndex(p.a[1], st.xe_aL[1], p.a[2])]
           [] p.f = "xe_r[xe_src_index]" ->
                [st EXCEPT !.read = <<"xe_r", index>>]
           [] p.f = "xe_float_constants[xe_src_index >> 5u].c[xe_src_index & 31u]" ->
                [st EXCEPT !.read = <<"xe_float_constants", Shr(index, 5),
                                      BitAnd(index, 31)>>]
           [] p.f = "xe_loop_constants[xe_src_index]" ->
                [st EXCEPT !.read = <<"xe_loop_constants", index>>]
           [] p.f = "float((xe_bool_constants[xe_src_index >> 5u] >> (xe_src_index & 31u)) & 1u)" ->
                [st EXCEPT !.read = <<"xe_bool_constants", Shr(index, 5),
                                      BitAnd(index, 31)>>]
           [] p.f = "xe_r[%u]" -> [st EXCEPT !.read = <<"xe_r", p.a[1]>>]
           [] p.f = "xe_float_constants[%u].c[%u]" ->
                [st EXCEPT !.read = <<"xe_float_constants", p.a[1], p.a[2]>>]
           [] p.f = "xe_loop_constants[%u]" ->
                [st EXCEPT !.read = <<"xe_loop_constants", p.a[1]>>]
           [] p.f = "float((xe_bool_constants[%u] >> %uu) & 1u)" ->
                [st EXCEPT !.read = <<"xe_bool_constants", p.a[1], p.a[2]>>]
           [] OTHER -> st)

\* operands of every storage source and addressing mode
IndexOperands ==
  {Operand(s, i, m, FALSE, FALSE, 4, StandardSwizzle) :
     s \in StorageSources \ {"kVertexFetchConstant"}, m \in AddressingModes,
     i \in {0, 31, 37, 255}}

\* values of xe_a0 and xe_aL.x: the clamp range of xe_a0 (-256..255), values
\* around the multiples of the masks, and the ends of the int range
IndexValues ==
  {-2147483647, -32768, -256, -129, -38, -1, 0, 1, 91, 219, 255, 32767, 2147483647}

InitIndex ==
  /\ input \in [op : {"index"}, operand : IndexOperands, xe_a0 : IndexValues,
                xe_aL : IndexValues]
  /\ InExecBlock(<<>>)

\* the ALU instruction whose first operand is the operand under test
IndexInstr ==
  Instr("alu", "kVector", "kAdd", "kAdds", FALSE, FALSE,
        <<input.operand, Register(1)>>, WriteRegister(0), NoAttributes)

TranslateLoad ==
  /\ input.op = "index"
  /\ ProcessAluInstruction(IndexInstr)

\* the first operand load of the emitted instruction, run
RunLoad ==
  /\ input.op = "index"
  /\ call.op = "ProcessAluInstruction"
  /\ run = NoRun
  /\ run' = ExecLoad(EmitLoadOperandText(depth_, 0, alu.operands[1]), 1,
                     [op |-> "index", xe_a0 |-> input.xe_a0,
                      xe_aL |-> <<input.xe_aL, 0, 0, 0>>, xe_src_index |-> 0,
                      read |-> <<>>])
  /\ RunFrame

NextIndex == TranslateLoad \/ RunLoad

SpecIndex == InitIndex /\ [][NextIndex]_vars

\* the mask the claim gives each storage source
IndexMask(storage_source) ==
  CASE storage_source = "kRegister" -> 127
    [] storage_source \in {"kConstantFloat", "kConstantBool"} -> 255
    [] storage_source = "kConstantInt" -> 31

\* (index + a) mod 2^32 masked with mask = 2^k - 1: the residue modulo 2^k
ResidueOfSum(index, a, mask) == ((index % (mask + 1)) + (a % (mask + 1))) % (mask + 1)

\* C20: for an operand with non-static addressing, xe_src_index is
\* storage_index + xe_a0 (absolute) or storage_index + xe_aL.x (relative) as a
\* 32-bit unsigned value, masked with 127 for registers, 255 for float and
\* boolean constants and 31 for integer constants; it is in 0..mask also when
\* xe_a0 or xe_aL.x is negative; registers and integer constants are read at
\* that index, float and boolean constants at page index div 32, entry or bit
\* index mod 32.
C20_DynamicIndex ==
  (run # NoRun /\ input.op = "index" /\ input.operand.storage_addressing_mode # "kStatic") =>
    LET operand == input.operand
        a == IF operand.storage_addressing_mode = "kAddressAbsolute"
               THEN input.xe_a0 ELSE input.xe_aL
        mask == IndexMask(operand.storage_source)
        index == ResidueOfSum(operand.storage_index, a, mask)
    IN /\ run.xe_src_index = index
       /\ run.xe_src_index \in 0..mask
       /\ run.read =
            CASE operand.storage_source = "kRegister" -> <<"xe_r", index>>
              [] operand.storage_source = "kConstantInt" -> <<"xe_loop_constants", index>>
              [] operand.storage_source = "kConstantFloat" ->
                   <<"xe_float_constants", index \div 32, index % 32>>
              [] operand.storage_source = "kConstantBool" ->
                   <<"xe_bool_constants", index \div 32, index % 32>>

\* C20 witness: float constant 37 addressed relative to a loop index of -38
\* wraps to index 255, page 7, entry 31
C20_Witness ==
  /\ run # NoRun
  /\ input.op = "index"
  /\ input.operand.storage_source = "kConstantFloat"
  /\ input.operand.storage_addressing_mode = "kAddressRelative"
  /\ input.operand.storage_index = 37
  /\ input.xe_aL = -38
  /\ input.xe_a0 = 1
  /\ run.xe_src_index = 255
  /\ run.read = <<"xe_float_constants", 7, 31>>

-----------------------------------------------------------------------------
(* Writes to the scalar targets (SpecAlu) *)

\* the instruction under test has been translated
StoreDone ==
  /\ input.op = "EmitStoreResult"
  /\ call.op = "ProcessAluInstruction"
  /\ ninstr = MaxInstr
  /\ alu = input.instr

\* the assignments to the scalar targets in the instruction's text
ScalarAssignments(text) ==
  Count(text, "xe_output.point_size", <<>>) + Count(text, "xe_output.depth", <<>>)

\* C21 as stated: a write to point size or depth whose mask has at least one
\* component set emits exactly one scalar assignment to the target, also when
\* mask component 0 is false, and writes_depth_ is set exactly when a depth
\* assignment is emitted.
C21_AsStated ==
  (StoreDone /\ storage_is_scalar(alu.result) /\ has_any_writes(alu.result)) =>
    /\ ScalarAssignments(call.emitted) = 1
    /\ input.prior = <<>> =>
         (writes_depth_ <=> Count(call.emitted, "xe_output.depth", <<>>) = 1)

\* C21, the failing state: a depth write whose mask sets component 1 but not
\* component 0 has emitted no assignment and left writes_depth_ false
C21_MaskedOut ==
  /\ StoreDone
  /\ alu.result.storage_target = "kDepth"
  /\ ~alu.result.write_mask[1]
  /\ alu.result.write_mask[2]
  /\ input.prior = <<>>
  /\ ScalarAssignments(call.emitted) = 0
  /\ ~writes_depth_

-----------------------------------------------------------------------------
(* SpecOpcode: one ALU instruction translated, and the statements of its      *)
(* opcode run on small operand values.  Floats are the integers they equal;   *)
(* XE_FLT_MAX is the largest number of the model.                             *)

\* "#define XE_FLT_MAX 3.402823466e+38"
XE_FLT_MAX == 2147483647

Max(a, b) == IF a < b THEN b ELSE a

\* float(b) of a bool, and bool(f) of a float, as HLSL converts them
FloatOfBool(b) == IF b THEN 1 ELSE 0
BoolOfFloat(f) == f # 0

\* One statement of a scalar min/max or of a predicate-setting opcode.
\* p0_type is the type of the last expression assigned to xe_p0; compiles
\* turns false at a statement that names a variable the prologue does not
\* declare (src0, line 1349).
ExecOpcodeStatement(p, st) ==
  LET x == st.xe_src0.x
      y == st.xe_src0.y
      SetP0(b) == [st EXCEPT !.xe_p0 = b, !.p0_type = "bool"]
      Push(b) == [st EXCEPT !.xe_pv = IF b THEN 0 ELSE x + 1]
  IN CASE p.f = "xe_ps = max(xe_src0.x, xe_src0.y);\n" -> [st EXCEPT !.xe_ps = Max(x, y)]
       [] p.f = "xe_p0 = xe_src0.x == 0.0;\n" -> SetP0(x = 0)
       [] p.f = "xe_p0 = xe_src0.x != 0.0;\n" -> SetP0(x # 0)
       [] p.f = "xe_p0 = xe_src0.x > 0.0;\n" -> SetP0(x > 0)
       [] p.f = "xe_p0 = xe_src0.x >= 0.0;\n" -> SetP0(x >= 0)
       [] p.f = "xe_p0 = xe_src0.x == 1.0;\n" -> SetP0(x = 1)
       [] p.f = "xe_ps = float(!xe_p0);\n" ->
            [st EXCEPT !.xe_ps = FloatOfBool(~st.xe_p0)]
       [] p.f = "xe_ps = float(!xe_p0) * (xe_src0.x == 0.0 ? 1.0 : xe_src0.x);\n" ->
            [st EXCEPT !.xe_ps = FloatOfBool(~st.xe_p0) * (IF x = 0 THEN 1 ELSE x)]
       [] p.f = "xe_ps = max(xe_src0.x - 1.0, 0.0);\n" ->
            [st EXCEPT !.xe_ps = Max(x - 1, 0)]
       [] p.f = "xe_p0 = xe_ps == 0.0;\n" -> SetP0(st.xe_ps = 0)
       [] p.f = "xe_ps = false;\n" -> [st EXCEPT !.xe_ps = FloatOfBool(FALSE)]
       [] p.f = "xe_p0 = XE_FLT_MAX;\n" ->
            [st EXCEPT !.xe_p0 = BoolOfFloat(XE_FLT_MAX), !.p0_type = "float"]
       [] p.f \in {"xe_p0 = src0.x == 0.0;\n", "xe_ps = src0.x;\n"} ->
            [st EXCEPT !.compiles = FALSE]
       [] p.f = "xe_p0 = xe_src0.w == 0.0 && xe_src1.w == 0.0;\n" ->
            SetP0(st.xe_src0.w = 0 /\ st.xe_src1.w = 0)
       [] p.f = "xe_p0 = xe_src0.w == 0.0 && xe_src1.w != 0.0;\n" ->
            SetP0(st.xe_src0.w = 0 /\ st.xe_src1.w # 0)
       [] p.f = "xe_p0 = xe_src0.w == 0.0 && xe_src1.w > 0.0;\n" ->
            SetP0(st.xe_src0.w = 0 /\ st.xe_src1.w > 0)
       [] p.f = "xe_p0 = xe_src0.w == 0.0 && xe_src1.w >= 0.0;\n" ->
            SetP0(st.xe_src0.w = 0 /\ st.xe_src1.w >= 0)
       [] p.f = "xe_pv = (xe_src0.x == 0.0 && xe_src1.x == 0.0 ? 0.0 : xe_src0.x + 1.0).xxxx;\n" ->
            Push(x = 0 /\ st.xe_src1.x = 0)
       [] p.f = "xe_pv = (xe_src0.x == 0.0 && xe_src1.x != 0.0 ? 0.0 : xe_src0.x + 1.0).xxxx;\n" ->
            Push(x = 0 /\ st.xe_src1.x # 0)
       [] p.f = "xe_pv = (xe_src0.x == 0.0 && xe_src1.x > 0.0 ? 0.0 : xe_src0.x + 1.0).xxxx;\n" ->
            Push(x = 0 /\ st.xe_src1.x > 0)
       [] p.f = "xe_pv = (xe_src0.x == 0.0 && xe_src1.x >= 0.0 ? 0.0 : xe_src0.x + 1.0).xxxx;\n" ->
            Push(x = 0 /\ st.xe_src1.x >= 0)

RECURSIVE ExecOpcode(_, _, _)
ExecOpcode(text, i, st) ==
  IF i > Len(text) THEN st ELSE ExecOpcode(text, i + 1, ExecOpcodeStatement(text[i], st))

\* the opcodes whose statements are run
RunScalarOpcodes == {"kMaxs", "kMins"} \cup ScalarSetpOpcodes

OperandValues == {-1, 0, 1, 2}

\* the working state before the opcode's statements
OpcodeState(x, y, w, x1, w1, ps, p0) ==
  [op |-> "opcode", xe_src0 |-> [x |-> x, y |-> y, w |-> w],
   xe_src1 |-> [x |-> x1, w |-> w1], xe_ps |-> ps, xe_pv |-> 0, xe_p0 |-> p0,
   p0_type |-> "bool", compiles |-> TRUE]

InitOpcode ==
  /\ input \in [op : {"opcode"}, type : {"kScalar"}, opcode : RunScalarOpcodes,
                x : OperandValues, y : OperandValues, w : {0}, x1 : {0}, w1 : {0},
                ps : {0, 1}, p0 : BOOLEAN]
            \cup [op : {"opcode"}, type : {"kVector"}, opcode : VectorSetpOpcodes,
                  x : {-1, 0}, y : {0}, w : {0, 1}, x1 : {-1, 0, 1},
                  w1 : {-1, 0, 1}, ps : {0}, p0 : BOOLEAN]
  /\ InExecBlock(<<>>)

OpcodeInstr ==
  Instr("alu", input.type, IF input.type = "kVector" THEN input.opcode ELSE "kAdd",
        IF input.type = "kScalar" THEN input.opcode ELSE "kAdds", FALSE, FALSE,
        IF input.type = "kVector" THEN <<Register(0), Register(1)>> ELSE <<Register(0)>>,
        WriteRegister(0), NoAttributes)

\* the statements ProcessVectorAluInstruction / ProcessScalarAluInstruction
\* emit for the opcode of instr
OpcodeText(d, instr) ==
  IF instr.type = "kVector"
    THEN VectorOpcodeText(d, instr.vector_opcode)
    ELSE ScalarOpcodeText(d, instr.scalar_opcode)

\* the working state the run starts from
OpcodeStart ==
  OpcodeState(input.x, input.y, input.w, input.x1, input.w1, input.ps, input.p0)

TranslateOpcode ==
  /\ input.op = "opcode"
  /\ ProcessAluInstruction(OpcodeInstr)

RunOpcode ==
  /\ input.op = "opcode"
  /\ call.op = "ProcessAluInstruction"
  /\ run = NoRun
  /\ run' = ExecOpcode(OpcodeText(depth_, alu), 1, OpcodeStart)
  /\ RunFrame

NextOpcode == TranslateOpcode \/ RunOpcode

SpecOpcode == InitOpcode /\ [][NextOpcode]_vars

\* xe_ps after the statements of a scalar opcode, from the run's start state
ScalarResult(opcode) == ExecOpcode(ScalarOpcodeText(8, opcode), 1, OpcodeStart).xe_ps

\* C22 as stated: kMins leaves the minimum of xe_src0.x and xe_src0.y in
\* xe_ps and kMaxs their maximum; whenever x differs from y the two opcodes
\* give different results.
C22_AsStated ==
  (run # NoRun /\ input.op = "opcode" /\ input.opcode \in {"kMins", "kMaxs"}) =>
    /\ run.xe_ps = IF input.opcode = "kMins"
                     THEN Min(input.x, input.y) ELSE Max(input.x, input.y)
    /\ input.x # input.y => ScalarResult("kMins") # ScalarResult("kMaxs")

\* C22, the failing state: kMins has run on x = -1, y = 2 and left the
\* maximum, 2, in xe_ps
C22_MinIsMax ==
  /\ run # NoRun
  /\ input.op = "opcode"
  /\ input.opcode = "kMins"
  /\ alu.scalar_opcode = "kMins"
  /\ input.x = -1 /\ input.y = 2
  /\ run.xe_ps = 2
  /\ ScalarResult("kMaxs") = 2

\* C23 as stated: after kSetpClr xe_p0 is false and xe_ps holds FLT_MAX, and
\* every predicate-setting opcode assigns xe_p0 a boolean value.
C23_AsStated ==
  (run # NoRun /\ input.op = "opcode") =>
    /\ input.opcode = "kSetpClr" => (~run.xe_p0 /\ run.xe_ps = XE_FLT_MAX)
    /\ input.opcode \in (ScalarSetpOpcodes \cup VectorSetpOpcodes) =>
         run.p0_type = "bool"

\* C23, the failing state: kSetpClr has run from a false predicate and left
\* xe_p0 true, assigned from a float, and xe_ps 0.0
C23_ClrSetsPredicate ==
  /\ run # NoRun
  /\ input.op = "opcode"
  /\ input.opcode = "kSetpClr"
  /\ ~input.p0
  /\ input.ps = 1
  /\ run.xe_p0
  /\ run.p0_type = "float"
  /\ run.xe_ps = 0

(* SpecFormat: the element load and the conversion statements of the packed   *)
(* and 16-bit vertex formats, run on element data built from field values.    *)

\* floor(2^s / b) and 2^s mod b, by long division
RECURSIVE DivPow2(_, _)
DivPow2(s, b) ==
  IF s = 0 THEN [q |-> 1 \div b, r |-> 1 % b]
  ELSE LET p == DivPow2(s - 1, b)
       IN [q |-> 2 * p.q + (2 * p.r) \div b, r |-> (2 * p.r) % b]

\* the float nearest to 1 / b, the value of a constant written 1.0 / b, for
\* 0 < b < 2^16
FloatRecip(b) ==
  LET s == CHOOSE i \in 23..40 : DivPow2(i, b).q >= 2 ^ 23 /\ DivPow2(i, b).q < 2 ^ 24
      p == DivPow2(s, b)
      up == IF 2 * p.r > b \/ (2 * p.r = b /\ p.q % 2 = 1) THEN 1 ELSE 0
  IN Canon(p.q + up, -s)

\* u >> n on a uint held as two 16-bit halves
ShrWord(u, n) ==
  IF n >= 16 THEN [hi |-> 0, lo |-> u.hi \div (2 ^ (n - 16))]
  ELSE [hi |-> u.hi \div (2 ^ n),
        lo |-> u.lo \div (2 ^ n) + (u.hi % (2 ^ n)) * 2 ^ (16 - n)]

\* v << n on 32 bits, for v below 2^16
ShlWord(v, n) ==
  IF n >= 16 THEN [hi |-> (v * 2 ^ (n - 16)) % 65536, lo |-> 0]
  ELSE [hi |-> ((v * 2 ^ n) \div 65536) % 65536, lo |-> (v * 2 ^ n) % 65536]

\* int(u << s) >> s for s >= 3: the left shift drops the top s bits of u, the
\* arithmetic right shift copies bit 31 - s of u into them
ShiftSignExtend(u, s) ==
  LET kept == IF 32 - s <= 16 THEN u.lo % (2 ^ (32 - s))
              ELSE (u.hi % (2 ^ (16 - s))) * 65536 + u.lo
  IN IF kept >= 2 ^ (31 - s) THEN kept - 2 ^ (32 - s) ELSE kept

\* f16tof32 of the low 16 bits of a lane; an infinity is [m = 1 or -1,
\* e = 1024] and a NaN [m = 0, e = 1024]
HalfToFloat(h) ==
  LET sign == IF h >= 32768 THEN -1 ELSE 1
      exponent == (h \div 1024) % 32
      mantissa == h % 1024
  IN IF exponent = 31 THEN [m |-> IF mantissa = 0 THEN sign ELSE 0, e |-> 1024]
     ELSE IF exponent = 0 THEN Canon(sign * mantissa, -24)
     ELSE Canon(sign * (1024 + mantissa), exponent - 25)

\* xe_vertex_element lanes 1..Len(shifts) = (lane x >> shifts) & masks
ExtractLanes(st, shifts, masks) ==
  [st EXCEPT !.xe_vertex_element =
     [i \in 1..4 |->
        IF i <= Len(shifts)
          THEN [hi |-> 0,
                lo |-> BitAnd(ShrWord(st.xe_vertex_element[1], shifts[i]).lo, masks[i])]
          ELSE st.xe_vertex_element[i]]]

\* xe_pv lanes 1..Len(shifts) = float(int(lane << shifts) >> shifts)
SignExtendLanes(st, shifts) ==
  [st EXCEPT !.xe_pv =
     [i \in 1..4 |->
        IF i <= Len(shifts)
          THEN RoundFloat(ShiftSignExtend(st.xe_vertex_element[i], shifts[i]), 0)
          ELSE st.xe_pv[i]]]

\* xe_pv lanes 1..Len(scales) = max(lane * scales, -1.0)
NormalizeLanes(st, scales) ==
  [st EXCEPT !.xe_pv =
     [i \in 1..4 |->
        IF i <= Len(scales)
          THEN FloatMax(FloatMul(st.xe_pv[i], scales[i]), FloatFromInt(-1))
          ELSE st.xe_pv[i]]]

\* the conversion statements of a signed format, run from piece i on
RECURSIVE ExecFormat(_, _, _)
ExecFormat(text, i, st) ==
  IF i > Len(text) THEN st
  ELSE
    LET f == text[i].f
        g == IF i < Len(text) THEN text[i + 1].f ELSE ""
        r127 == FloatRecip(127)
        r511 == FloatRecip(511)
        r1023 == FloatRecip(1023)
        r32767 == FloatRecip(32767)
        one == FloatFromInt(1)
    IN CASE f = "xe_vertex_element = (xe_vertex_element.xxxx >>\n"
              /\ g = "    uint4(0u, 8u, 16u, 24u)) & 255u;\n" ->
              ExecFormat(text, i + 2,
                         ExtractLanes(st, <<0, 8, 16, 24>>, <<255, 255, 255, 255>>))
         [] f = "xe_vertex_element = (xe_vertex_element.xxxx >>\n"
              /\ g = "    uint4(0u, 10u, 20u, 30u)) & uint4((1023u).xxx, 3u);\n" ->
              ExecFormat(text, i + 2,
                         ExtractLanes(st, <<0, 10, 20, 30>>, <<1023, 1023, 1023, 3>>))
         [] f = "xe_vertex_element.xyz = (xe_vertex_element.xxx >>\n"
              /\ g = "    uint3(0u, 11u, 22u)) & uint3(2047u, 2047u, 1023u);\n" ->
              ExecFormat(text, i + 2,
                         ExtractLanes(st, <<0, 11, 22>>, <<2047, 2047, 1023>>))
         [] f = "xe_vertex_element.xyz = (xe_vertex_element.xxx >>\n"
              /\ g = "    uint3(0u, 10u, 21u)) & uint3(1023u, 2047u, 2047u);\n" ->
              ExecFormat(text, i + 2,
                         ExtractLanes(st, <<0, 10, 21>>, <<1023, 2047, 2047>>))
         [] f = "xe_vertex_element.xy = (xe_vertex_element.xx >>\n"
              /\ g = "    uint2(0u, 16u)) & 65535u;\n" ->
              ExecFormat(text, i + 2, ExtractLanes(st, <<0, 16>>, <<65535, 65535>>))
         [] f = "xe_vertex_element = (xe_vertex_element.xxxx >>\n"
              /\ g = "    uint4(0u, 16u, 0u, 16u)) & 65535u;\n" ->
              ExecFormat(text, i + 2,
                         ExtractLanes(st, <<0, 16, 0, 16>>,
                                      <<65535, 65535, 65535, 65535>>))
         [] f = "xe_pv = float4(int4(xe_vertex_element << 24u) >> 24);\n" ->
              ExecFormat(text, i + 1, SignExtendLanes(st, <<24, 24, 24, 24>>))
         [] f = "xe_pv = float4(int4(xe_vertex_element << uint4((22u).xxx, 3u))\n"
              /\ g = "    >> int4((22).xxx, 3));\n" ->
              ExecFormat(text, i + 2, SignExtendLanes(st, <<22, 22, 22, 3>>))
         [] f = "xe_pv.xyz = float3(int3(xe_vertex_element.xyz <<\n"
              /\ g = "    uint3(21u, 21u, 22u)) >> int3(21, 21, 22));\n" ->
              ExecFormat(text, i + 2, SignExtendLanes(st, <<21, 21, 22>>))
         [] f = "xe_pv.xyz = float3(int3(xe_vertex_element.xyz <<\n"
              /\ g = "    uint3(22u, 21u, 21u)) >> int3(22, 21, 21));\n" ->
              ExecFormat(text, i + 2, SignExtendLanes(st, <<22, 21, 21>>))
         [] f = "xe_pv.xy = float2(int2(xe_vertex_element.xy << 16u) >> 16);\n" ->
              ExecFormat(text, i + 1, SignExtendLanes(st, <<16, 16>>))
         [] f = "xe_pv = float4(int4(xe_vertex_element << 16u) >> 16);\n" ->
              ExecFormat(text, i + 1, SignExtendLanes(st, <<16, 16, 16, 16>>))
         [] f = "xe_pv = max(xe_pv * (1.0 / 127.0), (-1.0).xxxx);\n" ->
              ExecFormat(text, i + 1, NormalizeLanes(st, <<r127, r127, r127, r127>>))
         [] f = "xe_pv = max(xe_pv * float4((1.0 / 511.0).xxx, 1.0), (-1.0).xxxx);\n" ->
              ExecFormat(text, i + 1, NormalizeLanes(st, <<r511, r511, r511, one>>))
         [] f = "xe_pv.xyz = max(xe_pv.xyz *\n"
              /\ g = "    float3((1.0 / 1023.0).xx, 1.0 / 511.0), (-1.0).xxx);\n" ->
              ExecFormat(text, i + 2, NormalizeLanes(st, <<r1023, r1023, r511>>))
         [] f = "xe_pv.xyz = max(xe_pv.xyz *\n"
              /\ g = "    float3(1.0 / 511.0, (1.0 / 1023.0).xx), (-1.0).xxx);\n" ->
              ExecFormat(text, i + 2, NormalizeLanes(st, <<r511, r1023, r1023>>))
         [] f = "xe_pv.xy = max(xe_pv.xy * (1.0 / 32767.0), (-1.0).xx);\n" ->
              ExecFormat(text, i + 1, NormalizeLanes(st, <<r32767, r32767>>))
         [] f = "xe_pv = max(xe_pv * (1.0 / 32767.0), (-1.0).xxxx);\n" ->
              ExecFormat(text, i + 1,
                         NormalizeLanes(st, <<r32767, r32767, r32767, r32767>>))
         [] f = "xe_pv = f16tof32(xe_vertex_element);\n" ->
              ExecFormat(text, i + 1,
                         [st EXCEPT !.xe_pv =
                            [k \in 1..4 |-> HalfToFloat(st.xe_vertex_element[k].lo)]])
         [] f = "xe_pv.w = 1.0;\n" ->
              ExecFormat(text, i + 1, [st EXCEPT !.xe_pv[4] = one])
         [] f = "xe_pv.zw = float2(0.0, 1.0);\n" ->
              ExecFormat(text, i + 1,
                         [st EXCEPT !.xe_pv[3] = FloatFromInt(0), !.xe_pv[4] = one])
         [] OTHER -> [st EXCEPT !.stuck = TRUE]

\* the lanes the element load assigns: .x, .xy, .xyz or all four
LoadedLanes(text) ==
  CASE text[1].f = "xe_vertex_element.xy = XeByteSwap(xe_shared_memory.Load2(\n" -> 2
    [] text[1].f = "xe_vertex_element.xyz = XeByteSwap(xe_shared_memory.Load3(\n" -> 3
    [] text[1].f = "xe_vertex_element = XeByteSwap(xe_shared_memory.Load4(\n" -> 4
    [] OTHER -> 1

\* the load statement run on element data: the lanes it names take the dwords
\* of the element (as XeByteSwap leaves them), the others keep their value
ExecElementLoad(text, st, element) ==
  [st EXCEPT !.xe_vertex_element =
     [i \in 1..4 |-> IF i <= LoadedLanes(text) THEN element[i]
                     ELSE st.xe_vertex_element[i]]]

\* the fields of a packed or 16-bit format, x first: the lane of the element
\* each lies in, its lowest bit and its width
FormatFields(data_format) ==
  LET Field(lane, shift, width) == [lane |-> lane, shift |-> shift, width |-> width]
  IN CASE data_format = "k_8_8_8_8" ->
            <<Field(1, 0, 8), Field(1, 8, 8), Field(1, 16, 8), Field(1, 24, 8)>>
       [] data_format = "k_2_10_10_10" ->
            <<Field(1, 0, 10), Field(1, 10, 10), Field(1, 20, 10), Field(1, 30, 2)>>
       [] data_format = "k_10_11_11" ->
            <<Field(1, 0, 11), Field(1, 11, 11), Field(1, 22, 10)>>
       [] data_format = "k_11_11_10" ->
            <<Field(1, 0, 10), Field(1, 10, 11), Field(1, 21, 11)>>
       [] data_format = "k_16_16" -> <<Field(1, 0, 16), Field(1, 16, 16)>>
       [] data_format \in {"k_16_16_16_16", "k_16_16_16_16_FLOAT"} ->
            <<Field(1, 0, 16), Field(1, 16, 16), Field(2, 0, 16), Field(2, 16, 16)>>

SignedNormalizedFormats ==
  {"k_8_8_8_8", "k_2_10_10_10", "k_10_11_11", "k_11_11_10", "k_16_16", "k_16_16_16_16"}

FormatAttributes ==
  {[data_format |-> f, is_signed |-> TRUE, is_integer |-> FALSE, stride |-> 4,
    offset |-> 0] : f \in SignedNormalizedFormats \cup {"k_16_16_16_16_FLOAT"}}

\* the raw values a field of the given width is given: all of them up to 11
\* bits; of 16 bits the ends of the range, both sides of the sign change and
\* every 257th value
FieldValues(width) ==
  IF width <= 11 THEN 0..(2 ^ width - 1)
  ELSE {v \in 0..65535 : v < 8 \/ v > 65527 \/ (v > 32759 /\ v < 32776) \/ v % 257 = 0}

\* one field takes every value of FieldValues while the other fields hold
\* their minimum (sign bit only); and every field holds its maximum
FormatFieldSets(data_format) ==
  LET layout == FormatFields(data_format)
  IN UNION {{[j \in DOMAIN layout |-> IF j = i THEN v ELSE 2 ^ (layout[j].width - 1)] :
               v \in FieldValues(layout[i].width)} :
            i \in DOMAIN layout}
       \cup {[j \in DOMAIN layout |-> 2 ^ (layout[j].width - 1) - 1]}

FormatInputs ==
  UNION {[op : {"format"}, attributes : {a}, fields : FormatFieldSets(a.data_format)] :
         a \in FormatAttributes}

\* the dwords of the element whose fields hold the given values
RECURSIVE PackLane(_, _, _, _)
PackLane(layout, fields, lane, i) ==
  IF i > Len(layout) THEN Word(0)
  ELSE IF layout[i].lane = lane
    THEN AddWord(ShlWord(fields[i], layout[i].shift), PackLane(layout, fields, lane, i + 1))
    ELSE PackLane(layout, fields, lane, i + 1)

ElementOf(data_format, fields) ==
  [lane \in 1..4 |-> PackLane(FormatFields(data_format), fields, lane, 1)]

\* the field of the element a layout entry names
FieldOf(element, field) ==
  BitAnd(ShrWord(element[field.lane], field.shift).lo, 2 ^ field.width - 1)

InitFormat ==
  /\ input \in FormatInputs
  /\ InExecBlock(<<>>)

FormatInstr ==
  Instr("vfetch", "kNop", "kAdd", "kAdds", FALSE, FALSE,
        <<Operand("kRegister", 0, "kStatic", FALSE, FALSE, 1, <<"kX">>),
          Operand("kVertexFetchConstant", 95, "kStatic", FALSE, FALSE, 4,
                  StandardSwizzle)>>,
        WriteRegister(1), input.attributes)

\* the registers before the fetch: lanes the load does not assign keep bits
\* of an earlier fetch
FormatStart ==
  [op |-> "format",
   xe_vertex_element |-> [i \in 1..4 |-> [hi |-> 43690, lo |-> 21845]],
   xe_pv |-> [i \in 1..4 |-> FloatFromInt(0)], stuck |-> FALSE]

\* the load and the conversion of instr run on an element
FetchResult(instr, element) ==
  ExecFormat(VertexFormatText(8, instr.attributes), 1,
             ExecElementLoad(VertexLoadText(8, instr), FormatStart, element))

TranslateFetch ==
  /\ input.op = "format"
  /\ ProcessVertexFetchInstruction(FormatInstr)

RunFetch ==
  /\ input.op = "format"
  /\ call.op = "ProcessVertexFetchInstruction"
  /\ run = NoRun
  /\ run' = FetchResult(alu, ElementOf(alu.attributes.data_format, input.fields))
  /\ RunFrame

NextFormat == TranslateFetch \/ RunFetch

SpecFormat == InitFormat /\ [][NextFormat]_vars

\* a field of the given width read as a two's complement number
SignedField(v, width) == IF v >= 2 ^ (width - 1) THEN v - 2 ^ width ELSE v

\* the signed normalized value of a field: sign-extended from its width,
\* scaled by 1 / (2^(width-1) - 1), not below -1.0
SignedNormalized(v, width) ==
  FloatMax(FloatMul(FloatFromInt(SignedField(v, width)),
                    FloatRecip(2 ^ (width - 1) - 1)),
           FloatFromInt(-1))

FormatRun == run # NoRun /\ input.op = "format" /\ call.op = "ProcessVertexFetchInstruction"

\* C24 as stated: for every signed normalized format and every raw field
\* value each decoded component is its own field sign-extended from the
\* field's width, scaled and clamped: it lies in [-1.0, 1.0], and the field
\* minimum decodes to exactly -1.0.
C24_AsStated ==
  (FormatRun /\ input.attributes.data_format \in SignedNormalizedFormats) =>
    LET layout == FormatFields(input.attributes.data_format)
    IN /\ ~run.stuck
       /\ \A i \in DOMAIN layout :
            /\ run.xe_pv[i] = SignedNormalized(input.fields[i], layout[i].width)
            /\ ~FloatLess(run.xe_pv[i], FloatFromInt(-1))
            /\ ~FloatLess(FloatFromInt(1), run.xe_pv[i])
            /\ input.fields[i] = 2 ^ (layout[i].width - 1) =>
                 run.xe_pv[i] = FloatFromInt(-1)

\* C24, the failing state: a 2_10_10_10 element whose 2-bit w field holds its
\* minimum, binary 10, has been fetched as signed normalized and w is 2.0
C24_TwoBitField ==
  /\ FormatRun
  /\ alu.attributes.data_format = "k_2_10_10_10"
  /\ alu.attributes.is_signed /\ ~alu.attributes.is_integer
  /\ input.fields = <<512, 512, 512, 2>>
  /\ ~run.stuck
  /\ run.xe_pv = <<FloatFromInt(-1), FloatFromInt(-1), FloatFromInt(-1), FloatFromInt(2)>>

FourHalfFormats == {"k_16_16_16_16", "k_16_16_16_16_FLOAT"}

\* the value a 16-bit field of the format converts to
HalfValue(data_format, h) ==
  IF data_format = "k_16_16_16_16_FLOAT" THEN HalfToFloat(h)
  ELSE SignedNormalized(h, 16)

\* other contents of lane 1 of the element
LaneChanges ==
  {[hi |-> 0, lo |-> 0], [hi |-> 16384, lo |-> 15360], [hi |-> 32767, lo |-> 49152]}

\* C25 as stated: the 16_16_16_16 formats load two lanes; x and y come from
\* the low and high half of lane 0, z and w from the low and high half of
\* lane 1; changing only lane 1 of the element changes only z and w.
C25_AsStated ==
  (FormatRun /\ input.attributes.data_format \in FourHalfFormats) =>
    LET fmt == input.attributes.data_format
        element == ElementOf(fmt, input.fields)
    IN /\ ~run.stuck
       /\ LoadedLanes(VertexLoadText(8, alu)) = 2
       /\ run.xe_pv[1] = HalfValue(fmt, element[1].lo)
       /\ run.xe_pv[2] = HalfValue(fmt, element[1].hi)
       /\ run.xe_pv[3] = HalfValue(fmt, element[2].lo)
       /\ run.xe_pv[4] = HalfValue(fmt, element[2].hi)
       /\ \A other \in LaneChanges :
            LET changed == FetchResult(alu, [element EXCEPT ![2] = other])
            IN /\ changed.xe_pv[1] = run.xe_pv[1]
               /\ changed.xe_pv[2] = run.xe_pv[2]
               /\ HalfValue(fmt, other.lo) # HalfValue(fmt, element[2].lo) =>
                    changed.xe_pv[3] # run.xe_pv[3]
               /\ HalfValue(fmt, other.hi) # HalfValue(fmt, element[2].hi) =>
                    changed.xe_pv[4] # run.xe_pv[4]

\* C25, the failing state: a 16_16_16_16 element with 0x8000 in both halves
\* of lane 0 and 0x7FFF in the low half of lane 1 has been fetched as signed
\* normalized; z is -1.0, the value of lane 0's low half, and no other
\* content of lane 1 changes any component
C25_LaneOneUnread ==
  /\ FormatRun
  /\ alu.attributes.data_format = "k_16_16_16_16"
  /\ input.fields = <<32768, 32768, 32767, 32768>>
  /\ LoadedLanes(VertexLoadText(8, alu)) = 2
  /\ ~run.stuck
  /\ HalfValue("k_16_16_16_16", 32767) = FloatFromInt(1)
  /\ run.xe_pv = [i \in 1..4 |-> FloatFromInt(-1)]
  /\ \A other \in LaneChanges :
       FetchResult(alu, [ElementOf("k_16_16_16_16", input.fields) EXCEPT ![2] = other]).xe_pv
         = run.xe_pv

(* SpecNames: one ALU instruction of each opcode translated in an exec block, *)
(* the block and its control flow instruction closed, and the translation     *)
(* completed; the names of the opcode's statements against the declarations   *)
(* of the completed text.                                                     *)

\* the identifiers of each statement the opcode switches emit, in the order
\* they appear; component selections after a dot and numbers are not names
NamesIn(f) ==
  CASE f = "xe_pv = xe_src0 + xe_src1;\n" ->
         {"xe_pv", "xe_src0", "xe_src1"}
    [] f = "xe_pv = xe_src0 * xe_src1;\n" ->
         {"xe_pv", "xe_src0", "xe_src1"}
    [] f = "xe_pv = max(xe_src0, xe_src1);\n" ->
         {"xe_pv", "max", "xe_src0", "xe_src1"}
    [] f = "xe_pv = float4(xe_src0 == xe_src1);\n" ->
         {"xe_pv", "float4", "xe_src0", "xe_src1"}
    [] f = "xe_pv = float4(xe_src0 > xe_src1);\n" ->
         {"xe_pv", "float4", "xe_src0", "xe_src1"}
    [] f = "xe_pv = float4(xe_src0 >= xe_src1);\n" ->
         {"xe_pv", "float4", "xe_src0", "xe_src1"}
    [] f = "xe_pv = float4(xe_src0 != xe_src1);\n" ->
         {"xe_pv", "float4", "xe_src0", "xe_src1"}
    [] f = "xe_pv = frac(xe_src0);\n" ->
         {"xe_pv", "frac", "xe_src0"}
    [] f = "xe_pv = trunc(xe_src0);\n" ->
         {"xe_pv", "trunc", "xe_src0"}
    [] f = "xe_pv = floor(xe_src0);\n" ->
         {"xe_pv", "floor", "xe_src0"}
    [] f = "xe_pv = xe_src0 * xe_src1 + xe_src2;\n" ->
         {"xe_pv", "xe_src0", "xe_src1", "xe_src2"}
    [] f = "xe_pv = lerp(xe_src2, xe_src1, float4(xe_src0 == (0.0).xxxx));\n" ->
         {"xe_pv", "lerp", "xe_src2", "xe_src1", "float4", "xe_src0"}
    [] f = "xe_pv = lerp(xe_src2, xe_src1, float4(xe_src0 >= (0.0).xxxx));\n" ->
         {"xe_pv", "lerp", "xe_src2", "xe_src1", "float4", "xe_src0"}
    [] f = "xe_pv = lerp(xe_src2, xe_src1, float4(xe_src0 > (0.0).xxxx));\n" ->
         {"xe_pv", "lerp", "xe_src2", "xe_src1", "float4", "xe_src0"}
    [] f = "xe_pv = dot(xe_src0, xe_src1).xxxx;\n" ->
         {"xe_pv", "dot", "xe_src0", "xe_src1"}
    [] f = "xe_pv = dot(xe_src0.xyz, xe_src1.xyz).xxxx;\n" ->
         {"xe_pv", "dot", "xe_src0", "xe_src1"}
    [] f = "xe_pv = (dot(xe_src0.xy, xe_src1.xy) + xe_src2.x).xxxx;\n" ->
         {"xe_pv", "dot", "xe_src0", "xe_src1", "xe_src2"}
    [] f = "xe_pv = XeCubeTo2D(xe_src0.xyz);\n" ->
         {"xe_pv", "XeCubeTo2D", "xe_src0"}
    [] f = "xe_pv.xy = max(xe_src0.xy, xe_src0.zw);\n" ->
         {"xe_pv", "max", "xe_src0"}
    [] f = "xe_pv.xxxx = max(xe_pv.x, xe_pv.y);\n" ->
         {"xe_pv", "max"}
    [] f = "xe_p0 = xe_src0.w == 0.0 && xe_src1.w == 0.0;\n" ->
         {"xe_p0", "xe_src0", "xe_src1"}
    [] f = "xe_pv = (xe_src0.x == 0.0 && xe_src1.x == 0.0 ? 0.0 : xe_src0.x + 1.0).xxxx;\n" ->
         {"xe_pv", "xe_src0", "xe_src1"}
    [] f = "xe_p0 = xe_src0.w == 0.0 && xe_src1.w != 0.0;\n" ->
         {"xe_p0", "xe_src0", "xe_src1"}
    [] f = "xe_pv = (xe_src0.x == 0.0 && xe_src1.x != 0.0 ? 0.0 : xe_src0.x + 1.0).xxxx;\n" ->
         {"xe_pv", "xe_src0", "xe_src1"}
    [] f = "xe_p0 = xe_src0.w == 0.0 && xe_src1.w > 0.0;\n" ->
         {"xe_p0", "xe_src0", "xe_src1"}
    [] f = "xe_pv = (xe_src0.x == 0.0 && xe_src1.x > 0.0 ? 0.0 : xe_src0.x + 1.0).xxxx;\n" ->
         {"xe_pv", "xe_src0", "xe_src1"}
    [] f = "xe_p0 = xe_src0.w == 0.0 && xe_src1.w >= 0.0;\n" ->
         {"xe_p0", "xe_src0", "xe_src1"}
    [] f = "xe_pv = (xe_src0.x == 0.0 && xe_src1.x >= 0.0 ? 0.0 : xe_src0.x + 1.0).xxxx;\n" ->
         {"xe_pv", "xe_src0", "xe_src1"}
    [] f = "xe_pv.xxxx = float(any(xe_src0 == xe_src1));\n" ->
         {"xe_pv", "float", "any", "xe_src0", "xe_src1"}
    [] f = "clip(-xe_pv.x);\n" ->
         {"clip", "xe_pv"}
    [] f = "xe_pv.xxxx = float(any(xe_src0 > xe_src1));\n" ->
         {"xe_pv", "float", "any", "xe_src0", "xe_src1"}
    [] f = "xe_pv.xxxx = float(any(xe_src0 >= xe_src1));\n" ->
         {"xe_pv", "float", "any", "xe_src0", "xe_src1"}
    [] f = "xe_pv.xxxx = float(any(xe_src0 != xe_src1));\n" ->
         {"xe_pv", "float", "any", "xe_src0", "xe_src1"}
    [] f = "xe_pv.x = 1.0;\n" ->
         {"xe_pv"}
    [] f = "xe_pv.y = xe_src0.y * xe_src1.y;\n" ->
         {"xe_pv", "xe_src0", "xe_src1"}
    [] f = "xe_pv.z = xe_src0.z;\n" ->
         {"xe_pv", "xe_src0"}
    [] f = "xe_pv.w = xe_src1.w;\n" ->
         {"xe_pv", "xe_src1"}
    [] f = "xe_a0 = clamp(int(round(xe_src0.w)), -256, 255);\n" ->
         {"xe_a0", "clamp", "int", "round", "xe_src0"}
    [] f = "xe_ps = xe_src0.x + xe_src0.y;\n" ->
         {"xe_ps", "xe_src0"}
    [] f = "xe_ps += xe_src0.x;\n" ->
         {"xe_ps", "xe_src0"}
    [] f = "xe_ps = xe_src0.x * xe_src0.y;\n" ->
         {"xe_ps", "xe_src0"}
    [] f = "xe_ps *= xe_src0.x;\n" ->
         {"xe_ps", "xe_src0"}
    [] f = "xe_ps = (xe_ps == -XE_FLT_MAX || (isinf(xe_ps) && xe_ps < 0.0)\n" ->
         {"xe_ps", "XE_FLT_MAX", "isinf"}
    [] f = "    || isnan(xe_ps) || xe_src0.y <= 0.0 || isnan(xe_src0.y)) ?\n" ->
         {"isnan", "xe_ps", "xe_src0"}
    [] f = "    -XE_FLT_MAX : xe_src0.x * xe_ps;\n" ->
         {"XE_FLT_MAX", "xe_src0", "xe_ps"}
    [] f = "xe_ps = max(xe_src0.x, xe_src0.y);\n" ->
         {"xe_ps", "max", "xe_src0"}
    [] f = "xe_ps = float(xe_src0.x == 0.0);\n" ->
         {"xe_ps", "float", "xe_src0"}
    [] f = "xe_ps = float(xe_src0.x > 0.0);\n" ->
         {"xe_ps", "float", "xe_src0"}
    [] f = "xe_ps = float(xe_src0.x >= 0.0);\n" ->
         {"xe_ps", "float", "xe_src0"}
    [] f = "xe_ps = float(xe_src0.x != 0.0);\n" ->
         {"xe_ps", "float", "xe_src0"}
    [] f = "xe_ps = frac(xe_src0.x);\n" ->
         {"xe_ps", "frac", "xe_src0"}
    [] f = "xe_ps = trunc(xe_src0.x);\n" ->
         {"xe_ps", "trunc", "xe_src0"}
    [] f = "xe_ps = floor(xe_src0.x);\n" ->
         {"xe_ps", "floor", "xe_src0"}
    [] f = "xe_ps = exp2(xe_src0.x);\n" ->
         {"xe_ps", "exp2", "xe_src0"}
    [] f = "xe_ps = log2(xe_src0.x);\n" ->
         {"xe_ps", "log2", "xe_src0"}
    [] f = "xe_ps = (isinf(xe_ps) && xe_ps < 0.0) ? -XE_FLT_MAX : ps;\n" ->
         {"xe_ps", "isinf", "XE_FLT_MAX", "ps"}
    [] f = "xe_ps = clamp(rcp(xe_src0.x), -XE_FLT_MAX, XE_FLT_MAX);\n" ->
         {"xe_ps", "clamp", "rcp", "xe_src0", "XE_FLT_MAX"}
    [] f = "xe_ps = rcp(xe_src0.x);\n" ->
         {"xe_ps", "rcp", "xe_src0"}
    [] f = "xe_ps *= float(!isinf(xe_ps));\n" ->
         {"xe_ps", "float", "isinf"}
    [] f = "xe_ps = clamp(rsqrt(xe_src0.x), -XE_FLT_MAX, XE_FLT_MAX);\n" ->
         {"xe_ps", "clamp", "rsqrt", "xe_src0", "XE_FLT_MAX"}
    [] f = "xe_ps = rsqrt(xe_src0.x);\n" ->
         {"xe_ps", "rsqrt", "xe_src0"}
    [] f = "xe_a0 = clamp(int(round(xe_src0.x)), -256, 255);\n" ->
         {"xe_a0", "clamp", "int", "round", "xe_src0"}
    [] f = "xe_a0 = clamp(int(floor(xe_src0.x)), -256, 255);\n" ->
         {"xe_a0", "clamp", "int", "floor", "xe_src0"}
    [] f = "xe_ps = xe_src0.x - xe_src0.y;\n" ->
         {"xe_ps", "xe_src0"}
    [] f = "xe_ps = xe_src0.x - xe_ps;\n" ->
         {"xe_ps", "xe_src0"}
    [] f = "xe_p0 = xe_src0.x == 0.0;\n" ->
         {"xe_p0", "xe_src0"}
    [] f = "xe_ps = float(!xe_p0);\n" ->
         {"xe_ps", "float", "xe_p0"}
    [] f = "xe_p0 = xe_src0.x != 0.0;\n" ->
         {"xe_p0", "xe_src0"}
    [] f = "xe_p0 = xe_src0.x > 0.0;\n" ->
         {"xe_p0", "xe_src0"}
    [] f = "xe_p0 = xe_src0.x >= 0.0;\n" ->
         {"xe_p0", "xe_src0"}
    [] f = "xe_p0 = xe_src0.x == 1.0;\n" ->
         {"xe_p0", "xe_src0"}
    [] f = "xe_ps = float(!xe_p0) * (xe_src0.x == 0.0 ? 1.0 : xe_src0.x);\n" ->
         {"xe_ps", "float", "xe_p0", "xe_src0"}
    [] f = "xe_ps = max(xe_src0.x - 1.0, 0.0);\n" ->
         {"xe_ps", "max", "xe_src0"}
    [] f = "xe_p0 = xe_ps == 0.0;\n" ->
         {"xe_p0", "xe_ps"}
    [] f = "xe_ps = false;\n" ->
         {"xe_ps", "false"}
    [] f = "xe_p0 = XE_FLT_MAX;\n" ->
         {"xe_p0", "XE_FLT_MAX"}
    [] f = "xe_p0 = src0.x == 0.0;\n" ->
         {"xe_p0", "src0"}
    [] f = "xe_ps = src0.x;\n" ->
         {"xe_ps", "src0"}
    [] f = "clip(-xe_ps);\n" ->
         {"clip", "xe_ps"}
    [] f = "xe_ps = float(xe_src0.x == 1.0);\n" ->
         {"xe_ps", "float", "xe_src0"}
    [] f = "xe_ps = float(xe_src0.x);\n" ->
         {"xe_ps", "float", "xe_src0"}
    [] f = "xe_ps = xe_src0.x * xe_src1.x;\n" ->
         {"xe_ps", "xe_src0", "xe_src1"}
    [] f = "xe_ps = xe_src0.x + xe_src1.x;\n" ->
         {"xe_ps", "xe_src0", "xe_src1"}
    [] f = "xe_ps = xe_src0.x - xe_src1.x;\n" ->
         {"xe_ps", "xe_src0", "xe_src1"}
    [] f = "xe_ps = sin(xe_src0.x);\n" ->
         {"xe_ps", "sin", "xe_src0"}
    [] f = "xe_ps = cos(xe_src0.x);\n" ->
         {"xe_ps", "cos", "xe_src0"}
    [] OTHER -> {}

\* the names a piece of the text around the translated instructions declares:
\* the macro, the helper functions, the constant buffers, the register file
\* and the working variables
Declares(f) ==
  CASE f = "#pragma warning(disable : 3557)\n\n#define XE_FLT_MAX 3.402823466e+38\n\n" ->
         {"XE_FLT_MAX"}
    [] f = "float4 XeCubeTo2D(float3 xe_cube_3d) { ... }\n\nfloat3 XeCubeTo3D(float3 xe_cube_2d) { ... }\n\n" ->
         {"XeCubeTo2D", "XeCubeTo3D"}
    [] f = "cbuffer xe_system_constants : register(b0) { ... };\n\ncbuffer xe_loop_bool_constants : register(b1) {\n  uint xe_bool_constants[8];\n  uint xe_loop_constants[32];\n};\n\nstruct XeFloatConstantPage {\n  float4 c[32];\n};\nConstantBuffer<XeFloatConstantPage> xe_float_constants[8] : register(b2);\n\n" ->
         {"xe_bool_constants", "xe_loop_constants", "xe_float_constants"}
    [] f = "cbuffer xe_vertex_fetch_constants : register(b10) {\n  uint2 xe_vertex_fetch[96];\n};\n ... XeVertexShaderOutput main(uint xe_vertex_index_be : SV_VertexID) {\n  float4 xe_r[%u];\n ... uint4 xe_vertex_element;\n ... xe_output.point_size = -1.0;\n" ->
         {"xe_vertex_fetch", "xe_vertex_index_be", "xe_r", "xe_vertex_element"}
    [] f = "struct XePixelShaderInput { ... };\n\nstruct XePixelShaderOutput {\n  float4 colors[4] : SV_Target;\n  float depth : SV_Depth;\n};\n\nXePixelShaderOutput main(XePixelShaderInput xe_input) {\n  float4 xe_r[%u];\n ... xe_output.colors[3] = (0.0).xxxx;\n" ->
         {"xe_input", "xe_r"}
    [] f = "struct XePixelShaderInput { ... };\n\nstruct XePixelShaderOutput {\n  float4 colors[4] : SV_Target;\n};\n\nXePixelShaderOutput main(XePixelShaderInput xe_input) {\n  float4 xe_r[%u];\n ... xe_output.colors[3] = (0.0).xxxx;\n" ->
         {"xe_input", "xe_r"}
    [] f = "  uint xe_src_index;\n" ->
         {"xe_src_index"}
    [] f = "  float4 xe_src0, xe_src1, xe_src2;\n" ->
         {"xe_src0", "xe_src1", "xe_src2"}
    [] f = "  float4 xe_pv = float4(0.0, 0.0, 0.0, 0.0);\n" ->
         {"xe_pv"}
    [] f = "  float xe_ps = 0.0;\n" ->
         {"xe_ps"}
    [] f = "  bool xe_p0 = false;\n" ->
         {"xe_p0"}
    [] f = "  int xe_a0 = 0;\n" ->
         {"xe_a0"}
    [] f = "  int4 xe_aL = int4(0, 0, 0, 0);\n" ->
         {"xe_aL"}
    [] f = "  uint4 xe_loop_count = uint4(0u, 0u, 0u, 0u);\n" ->
         {"xe_loop_count"}
    [] f = "  uint xe_pc = 0u;\n" ->
         {"xe_pc"}
    [] OTHER -> {}

\* the intrinsic functions, type names and literals of HLSL the opcode
\* statements use
HlslWords ==
  {"any", "clamp", "clip", "cos", "dot", "exp2", "false", "float", "float4", "floor",
   "frac", "int", "isinf", "isnan", "lerp", "log2", "max", "rcp", "round", "rsqrt",
   "sin", "trunc"}

\* the names declared anywhere in a text
DeclaredNames(text) == UNION {Declares(text[i].f) : i \in DOMAIN text}

\* the statement formats of the two opcode switches
OpcodeFormats ==
  UNION {{VectorOpcodeText(0, o)[k].f : k \in DOMAIN VectorOpcodeText(0, o)} :
         o \in AluVectorOpcodes}
    \cup UNION {{ScalarOpcodeText(0, o)[k].f : k \in DOMAIN ScalarOpcodeText(0, o)} :
                o \in AluScalarOpcodes}

InitNames ==
  /\ input \in [op : {"names"}, type : {"kVector"}, opcode : AluVectorOpcodes,
                is_predicated : BOOLEAN, is_vertex_shader : BOOLEAN]
            \cup [op : {"names"}, type : {"kScalar"}, opcode : AluScalarOpcodes,
                  is_predicated : BOOLEAN, is_vertex_shader : BOOLEAN]
  /\ InExecBlock(<<>>)

NamesInstr ==
  Instr("alu", input.type, IF input.type = "kVector" THEN input.opcode ELSE "kAdd",
        IF input.type = "kScalar" THEN input.opcode ELSE "kAdds", input.is_predicated,
        TRUE, <<Register(0), Register(1), Register(2)>>, WriteRegister(0), NoAttributes)

NextNames ==
  \/ input.op = "names" /\ ProcessAluInstruction(NamesInstr)
  \/ ProcessExecInstructionEnd
  \/ ProcessControlFlowInstructionEnd
  \/ CompleteTranslation(input.is_vertex_shader, 4)

SpecNames == InitNames /\ [][NextNames]_vars

\* the opcode statements of a text
OpcodeStatements(text) == {i \in DOMAIN text : text[i].d >= 0 /\ text[i].f \in OpcodeFormats}

\* the names of a statement that are neither HLSL's nor declared in the text
Undeclared(text, i) == (NamesIn(text[i].f) \ HlslWords) \ DeclaredNames(text)

\* C26 as stated: in the completed text every name in the statements of every
\* vector and scalar ALU opcode is a declared working variable, constant
\* buffer, macro or helper, or a word of HLSL.
C26_AsStated ==
  phase = "done" => \A i \in OpcodeStatements(source) : Undeclared(source, i) = {}

\* C26, the failing state: a translation holding a kLogc instruction is
\* complete and its statement names ps, which the text does not declare
C26_UndeclaredName ==
  /\ phase = "done"
  /\ alu.type = "kScalar" /\ alu.scalar_opcode = "kLogc"
  /\ \E i \in OpcodeStatements(source) :
       /\ source[i].f = "xe_ps = (isinf(xe_ps) && xe_ps < 0.0) ? -XE_FLT_MAX : ps;\n"
       /\ Undeclared(source, i) = {"ps"}
  /\ "xe_ps" \in DeclaredNames(source)

=============================================================================
